---- MODULE Spec2Model ----
(***************************************************************************)
(* Model of backend/server.py: the profile store (class DB) with its       *)
(* combat hit resolution, the accounts, sessions and bans, the presence    *)
(* tracker (class PresenceStore) and the request handlers.                 *)
(*                                                                         *)
(* Specifications.  Spec: the methods of the profile store called one      *)
(* after the other.  SpecThreads: the same under two request threads and   *)
(* DB._lock.  SpecHttp: the handlers, one step per store call.             *)
(* SpecSessions: create_session, resolve_session, destroy_session under    *)
(* two threads.  SpecAccounts: create_user with names that differ in case. *)
(* SpecPresence: the presence map as references to entry dicts.            *)
(* SpecLocks: the acquisitions and releases of the two locks, with fair    *)
(* scheduling.  SpecRows: register_hit on any two profile rows.            *)
(* SpecSkills: register_hit for every value of the attacker's skill_id.    *)
(* SpecWorld: register_hit and set_profile_position in a populated world.  *)
(* SpecCreate: create_profile statement by statement, among other calls.   *)
(*                                                                         *)
(* Numbers.  REAL columns and Python floats are modelled as exact          *)
(* fixed-point numbers counted in tenths of a world unit (2.0 is 20,       *)
(* 14.4 is 144).  A distance that is not a multiple of a tenth is rounded  *)
(* up, which keeps its comparison with MAX_HIT_DISTANCE exact; a component *)
(* of a knockback vector is rounded to the nearest tenth.                  *)
(* Timestamps are whole seconds read from the variable now.                *)
(* Random tokens (secrets.token_hex) are modelled as fresh identifiers:    *)
(* the n-th row of a table gets the identifier n.                          *)
(***************************************************************************)
EXTENDS Integers, Sequences, FiniteSets, TLC

\* ------------------------------------------------------------------ bounds
MaxUsers == 1
MaxProfiles == 2
MaxHits == 2
MaxTime == 1
\* the number of calls in a run
MaxCalls == 7
\* the request threads, and the calls they make between them in a run
MaxThreads == 2
MaxThreadCalls == 3
\* the HTTP requests of a run
MaxRequests == 2
\* the session rows, and the calls of the session methods, of a run
MaxSessions == 1
\* the rows of table users where their names are followed
MaxAccounts == 2
\* the presence entries (dicts) allocated in a run
MaxCells == 3
\* the calls and requests of a run that follows the locks only
MaxLockCalls == 3
MaxSessionCalls == 3

\* --------------------------------------------------------------- constants
NULL == "NULL"

\* a NULL in an INTEGER column (revoked_at, a ban's expires_at)
NoTime == -1

\* SESSION_TTL_SECONDS = 60 * 60
SESSION_TTL_SECONDS == 3600

\* MAX_HIT_DISTANCE = 3.0, in tenths
MAX_HIT_DISTANCE == 30

\* DB._seed_static_data: weapons(weapon_id -> base_knockback), in tenths
WeaponCatalog ==
    [w \in {"diamond_sword", "netherite_sword"} |-> 120]

\* DB._seed_static_data: skills(skill_id -> knockback_multiplier), in tenths
SkillCatalog ==
    [s \in {"novice", "heavy_strike"} |-> IF s = "heavy_strike" THEN 12 ELSE 10]

\* DB._seed_static_data: quests
QuestCatalog == {"welcome_duel", "step_master"}

\* The two weapons create_profile grants, the first one equipped.
StarterWeapons == <<"diamond_sword", "netherite_sword">>

\* ------------------------------------------------------ inputs of the calls
\* user ids and player ids a caller may name (one more than can exist)
UserArgs == 1..(MaxUsers + 1)
PlayerArgs == 1..(MaxProfiles + 1)
SkillArgs == {NULL, "", "heavy_strike", "no_such_skill"}
WeaponArgs == {"diamond_sword", "netherite_sword", "no_such_weapon"}
QuestArgs == {"welcome_duel", "no_such_quest"}
\* (x, y) of set_profile_position, in tenths
PointArgs == {<<20, 0>>, <<50, 0>>, <<18, 24>>}

\* ------------------------------------------------------------------- state
VARIABLES
    now,        \* int(time.time())
    users,      \* table users: the set of user ids
    profiles,   \* table player_profiles: player_id -> row (a sequence)
    owned,      \* table player_weapons_owned: set of <<player_id, weapon_id>>
    quests,     \* table player_quests: set of rows, key (player_id, quest_id)
    events,     \* table combat_hit_events, in insertion order
    last,       \* the last call of a store method and what it returned
    calls,      \* how many calls have been made (bounds the runs)
    lock,       \* DB._lock: 0 when free, else the thread that took it last
    pc,         \* per request thread: where it is in its call
    req,        \* per request thread: the call it is making
    ret,        \* per request thread: what its last call returned
    local,      \* per request thread: register_hit's local variables
    snap,       \* the tables as they were when the lock was last taken
    accounts,   \* table users: the rows' username and email, by user_id
    sessions,   \* table auth_sessions: the tokens issued, in order of issue
    bans,       \* table user_bans: set of rows
    presence,   \* PresenceStore._presence_by_user: user_id -> the entry's dict
    cells,      \* the entry dicts allocated so far: [connected_at, last_seen]
    shot,       \* the dict a caller holds from online_user_ids()
    plock,      \* PresenceStore._lock: 0 when free, else the thread holding it
    caller      \* per request thread: the user id _auth_user_id resolved, or 0

vars == <<now, users, profiles, owned, quests, events, last, calls,
          lock, pc, req, ret, local, snap,
          accounts, sessions, bans, presence, cells, shot, plock, caller>>

\* the accounts, the sessions and the presence tracker
sessionvars == <<accounts, sessions, bans, presence, cells, shot, plock, caller>>

\* what the request threads add to the tables
threadvars == <<lock, pc, req, ret, local, snap>>

\* ----------------------------------------------------------------- helpers
Abs(n) == IF n < 0 THEN 0 - n ELSE n

\* The least r in lo..hi with r * r >= n (hi * hi >= n is given).
RECURSIVE CeilRoot(_, _, _)
CeilRoot(n, lo, hi) ==
    IF lo >= hi THEN hi
    ELSE LET mid == (lo + hi) \div 2 IN
         IF mid * mid >= n THEN CeilRoot(n, lo, mid) ELSE CeilRoot(n, mid + 1, hi)

\* x ** 0.5: the exact root of a perfect square, otherwise the next tenth up
\* (so that comparing the result with a multiple of a tenth is exact).
Sqrt(n) == CeilRoot(n, 0, IF n < 46340 THEN n ELSE 46340)

\* The least k in lo..hi with 4 * a * a < (2k + 1) * (2k + 1) * d2, that is the
\* integer nearest to a / sqrt(d2) (a half rounds up); hi satisfies it.
RECURSIVE NearestQuotient(_, _, _, _)
NearestQuotient(a, d2, lo, hi) ==
    IF lo >= hi THEN hi
    ELSE LET mid == (lo + hi) \div 2 IN
         IF 4 * a * a < (2 * mid + 1) * (2 * mid + 1) * d2
         THEN NearestQuotient(a, d2, lo, mid)
         ELSE NearestQuotient(a, d2, mid + 1, hi)

\* (c / distance) * force for a displacement component c >= 0, where
\* distance = sqrt(d2) >= c: the nearest tenth.
ScaleMagnitude(c, force, d2) == NearestQuotient(force * c, d2, 0, force)

Scale(c, force, d2) ==
    IF c < 0 THEN 0 - ScaleMagnitude(0 - c, force, d2) ELSE ScaleMagnitude(c, force, d2)

PlayerIds(profs) == 1..Len(profs)

\* secrets.token_hex: an identifier no row of the table has yet
FreshId(n) == n + 1

NoHit ==
    [hit_id |-> 0, weapon_id |-> NULL, distance |-> 0, kx |-> 0, ky |-> 0,
     was_applied |-> FALSE, reason |-> NULL]

\* What a call returned: (ok, code) and, for register_hit, the returned dict.
Call(op, ok, code, hit) == [op |-> op, ok |-> ok, code |-> code, hit |-> hit]

\* One more call of a run of at most MaxCalls calls.
Counted ==
    calls < MaxCalls /\ calls' = calls + 1 /\ UNCHANGED threadvars /\ UNCHANGED sessionvars

\* ------------------------------------------------------------ DB: profiles
\* The row create_profile inserts and then updates (equipped weapon set last).
NewProfile(user_id, skill_id) ==
    [user_id |-> user_id, skill_id |-> skill_id,
     equipped_weapon_id |-> StarterWeapons[1],
     pos_x |-> 0, pos_y |-> 0, can_receive_pvp_knockback |-> TRUE]

Truthy_Always(id) == TRUE

\* "if skill_id:" is false of None and of the empty string
Truthy(id) == id # NULL /\ id # ""

\* "if skill_id: ... SELECT 1 FROM skills": the skill check of create_profile
SkillRejected(skill_id) == Truthy(skill_id) /\ skill_id \notin DOMAIN SkillCatalog

\* FOREIGN KEY (skill_id) REFERENCES skills(skill_id), enforced on INSERT unless NULL
SkillKeyHolds(skill_id) == skill_id = NULL \/ skill_id \in DOMAIN SkillCatalog

\* FOREIGN KEY (user_id) REFERENCES users(user_id), enforced on INSERT
UserKeyHolds(us, user_id) == user_id \in us

\* create_profile: [ok, code, profiles, owned] from the tables before the call.
\* An IntegrityError leaves the "with self._conn" block by exception: rollback.
CreateProfileResult(us, profs, own, user_id, skill_id) ==
    IF SkillRejected(skill_id)
    THEN [ok |-> FALSE, code |-> "SKILL_NOT_FOUND", profiles |-> profs, owned |-> own]
    ELSE IF ~UserKeyHolds(us, user_id) \/ ~SkillKeyHolds(skill_id)
    THEN [ok |-> FALSE, code |-> "IntegrityError", profiles |-> profs, owned |-> own]
    ELSE LET player_id == FreshId(Len(profs)) IN
         [ok |-> TRUE, code |-> "",
          profiles |-> Append(profs, NewProfile(user_id, skill_id)),
          owned |-> own \cup {<<player_id, StarterWeapons[i]>> : i \in 1..Len(StarterWeapons)}]

create_profile(user_id, skill_id) ==
    \E r \in {CreateProfileResult(users, profiles, owned, user_id, skill_id)} :
    /\ r.ok => Len(profiles) < MaxProfiles
    /\ profiles' = r.profiles
    /\ owned' = r.owned
    /\ last' = Call("create_profile", r.ok, r.code, NoHit)
    /\ UNCHANGED <<now, users, quests, events>>
    /\ Counted

\* get_profile: the row as _row_to_profile returns it, or NULL
get_profile(profs, player_id) ==
    IF player_id \in PlayerIds(profs)
    THEN [player_id |-> player_id,
          user_id |-> profs[player_id].user_id,
          skill_id |-> profs[player_id].skill_id,
          equipped_weapon_id |-> profs[player_id].equipped_weapon_id,
          position |-> <<profs[player_id].pos_x, profs[player_id].pos_y>>,
          can_receive_pvp_knockback |-> profs[player_id].can_receive_pvp_knockback]
    ELSE NULL

SetPosition_Adding(profs, player_id, x, y) ==
    IF player_id \in PlayerIds(profs)
    THEN [profs EXCEPT ![player_id].pos_x = @ + x, ![player_id].pos_y = @ + y]
    ELSE profs

\* UPDATE player_profiles SET pos_x=?, pos_y=? WHERE player_id=?
SetPosition(profs, player_id, x, y) ==
    IF player_id \in PlayerIds(profs)
    THEN [profs EXCEPT ![player_id].pos_x = x, ![player_id].pos_y = y]
    ELSE profs

set_profile_position(player_id, pt) ==
    /\ profiles' = SetPosition(profiles, player_id, pt[1], pt[2])
    /\ last' = Call("set_profile_position", player_id \in PlayerIds(profiles), "", NoHit)
    /\ UNCHANGED <<now, users, owned, quests, events>>
    /\ Counted

IsOwned_Anything(own, player_id, weapon_id) == TRUE

\* SELECT 1 FROM player_weapons_owned WHERE player_id=? AND weapon_id=?
IsOwned(own, player_id, weapon_id) == <<player_id, weapon_id>> \in own

SetWeapon_Nothing(profs, player_id, weapon_id) == profs

\* UPDATE player_profiles SET equipped_weapon_id=? WHERE player_id=?
SetWeapon(profs, player_id, weapon_id) ==
    IF player_id \in PlayerIds(profs)
    THEN [profs EXCEPT ![player_id].equipped_weapon_id = weapon_id]
    ELSE profs

set_profile_weapon(player_id, weapon_id) ==
    /\ IF IsOwned(owned, player_id, weapon_id)
       THEN /\ profiles' = SetWeapon(profiles, player_id, weapon_id)
            /\ last' = Call("set_profile_weapon", TRUE, "", NoHit)
       ELSE /\ profiles' = profiles
            /\ last' = Call("set_profile_weapon", FALSE, "WEAPON_NOT_OWNED", NoHit)
    /\ UNCHANGED <<now, users, owned, quests, events>>
    /\ Counted

\* ---------------------------------------------------------- DB: quests
QuestRow(qs, player_id, quest_id) ==
    {r \in qs : r.player_id = player_id /\ r.quest_id = quest_id}

UpsertQuest_Replace(qs, player_id, quest_id, t) ==
    (qs \ QuestRow(qs, player_id, quest_id))
    \cup {[player_id |-> player_id, quest_id |-> quest_id, status |-> "accepted",
           accepted_at |-> t, updated_at |-> t]}

\* INSERT ... ON CONFLICT(player_id, quest_id) DO UPDATE SET status, updated_at
UpsertQuest(qs, player_id, quest_id, t) ==
    IF QuestRow(qs, player_id, quest_id) = {}
    THEN qs \cup {[player_id |-> player_id, quest_id |-> quest_id, status |-> "accepted",
                   accepted_at |-> t, updated_at |-> t]}
    ELSE {IF r.player_id = player_id /\ r.quest_id = quest_id
          THEN [r EXCEPT !.status = "accepted", !.updated_at = t]
          ELSE r : r \in qs}

\* FOREIGN KEY (player_id) REFERENCES player_profiles(player_id), on INSERT
PlayerKeyHolds(profs, player_id) == player_id \in PlayerIds(profs)

accept_quest(player_id, quest_id) ==
    /\ IF quest_id \notin QuestCatalog
       THEN /\ quests' = quests
            /\ last' = Call("accept_quest", FALSE, "QUEST_NOT_FOUND", NoHit)
       ELSE IF ~PlayerKeyHolds(profiles, player_id)
       THEN /\ quests' = quests
            /\ last' = Call("accept_quest", FALSE, "IntegrityError", NoHit)
       ELSE /\ quests' = UpsertQuest(quests, player_id, quest_id, now)
            /\ last' = Call("accept_quest", TRUE, "", NoHit)
    /\ UNCHANGED <<now, users, profiles, owned, events>>
    /\ Counted

\* ---------------------------------------------------------- DB: combat
OutOfRange_AtLimit(distance) == distance >= MAX_HIT_DISTANCE

\* "if distance > MAX_HIT_DISTANCE"
OutOfRange(distance) == distance > MAX_HIT_DISTANCE

SkillMultiplier_Required(skill_id) ==
    IF skill_id \in DOMAIN SkillCatalog THEN SkillCatalog[skill_id] ELSE 0

\* skill_mult: 1.0 unless the attacker's skill resolves in the catalog
SkillMultiplier(skill_id) ==
    IF Truthy(skill_id) /\ skill_id \in DOMAIN SkillCatalog
    THEN SkillCatalog[skill_id]
    ELSE 10

Force_WithoutSkill(weapon_id, skill_id) == WeaponCatalog[weapon_id]

\* force = float(weapon["base_knockback"]) * skill_mult
Force(weapon_id, skill_id) == (WeaponCatalog[weapon_id] * SkillMultiplier(skill_id)) \div 10

Knockback_Pulling(dx, dy, distance, force) ==
    IF distance = 0
    THEN <<force, 0>>
    ELSE <<0 - Scale(dx, force, dx * dx + dy * dy), 0 - Scale(dy, force, dx * dx + dy * dy)>>

Knockback_Upward(dx, dy, distance, force) ==
    IF distance = 0
    THEN <<0, force>>
    ELSE <<Scale(dx, force, dx * dx + dy * dy), Scale(dy, force, dx * dx + dy * dy)>>

Knockback_Dividing(dx, dy, distance, force) ==
    <<Scale(dx, force, dx * dx + dy * dy), Scale(dy, force, dx * dx + dy * dy)>>

\* (nx * force, ny * force), with (nx, ny) = (1.0, 0.0) when distance == 0
Knockback(dx, dy, distance, force) ==
    IF distance = 0
    THEN <<force, 0>>
    ELSE <<Scale(dx, force, dx * dx + dy * dy), Scale(dy, force, dx * dx + dy * dy)>>

RecordedKnockback_Always(apply_knockback, dx, dy, distance, force) ==
    Knockback(dx, dy, distance, force)

\* kx, ky = (nx * force, ny * force) if apply_knockback else (0.0, 0.0)
RecordedKnockback(apply_knockback, dx, dy, distance, force) ==
    IF apply_knockback THEN Knockback(dx, dy, distance, force) ELSE <<0, 0>>

NewHitId_Same(n_events) == 1

\* hit_id = secrets.token_hex(10): fresh among the n_events rows of the log
NewHitId(n_events) == FreshId(n_events)

\* register_hit up to the return value: the validation, the force and the vector.
\* [ok, code, hit] where hit holds what the event and the returned dict share.
HitOutcome(profs, n_events, attacker_player_id, target_player_id) ==
    IF attacker_player_id \notin PlayerIds(profs) \/ target_player_id \notin PlayerIds(profs)
    THEN [ok |-> FALSE, code |-> "PROFILE_NOT_FOUND", hit |-> NoHit]
    ELSE
    LET attacker == profs[attacker_player_id]
        target == profs[target_player_id]
        dx == target.pos_x - attacker.pos_x
        dy == target.pos_y - attacker.pos_y
        distance == Sqrt(dx * dx + dy * dy)
    IN
    IF ~Truthy(attacker.equipped_weapon_id)
    THEN [ok |-> FALSE, code |-> "NO_EQUIPPED_WEAPON", hit |-> NoHit]
    ELSE IF OutOfRange(distance)
    THEN [ok |-> FALSE, code |-> "TARGET_OUT_OF_RANGE", hit |-> NoHit]
    ELSE IF attacker.equipped_weapon_id \notin DOMAIN WeaponCatalog
    THEN [ok |-> FALSE, code |-> "WEAPON_NOT_FOUND", hit |-> NoHit]
    ELSE
    LET force == Force(attacker.equipped_weapon_id, attacker.skill_id)
        apply_knockback == target.can_receive_pvp_knockback
        k == RecordedKnockback(apply_knockback, dx, dy, distance, force)
    IN [ok |-> TRUE, code |-> "",
        hit |-> [hit_id |-> NewHitId(n_events),
                 weapon_id |-> attacker.equipped_weapon_id,
                 distance |-> distance, kx |-> k[1], ky |-> k[2],
                 was_applied |-> apply_knockback,
                 reason |-> IF apply_knockback THEN NULL ELSE "target_pvp_disabled"]]

ApplyKnockback_Everyone(profs, target_player_id, kx, ky) ==
    [p \in DOMAIN profs |-> [profs[p] EXCEPT !.pos_x = @ + kx, !.pos_y = @ + ky]]

ApplyKnockback_Twice(profs, target_player_id, kx, ky) ==
    [profs EXCEPT ![target_player_id].pos_x = @ + 2 * kx, ![target_player_id].pos_y = @ + 2 * ky]

ApplyKnockback_Nothing(profs, target_player_id, kx, ky) == profs

\* UPDATE player_profiles SET pos_x = pos_x + ?, pos_y = pos_y + ? WHERE player_id=?
ApplyKnockback(profs, target_player_id, kx, ky) ==
    [profs EXCEPT ![target_player_id].pos_x = @ + kx, ![target_player_id].pos_y = @ + ky]

\* INSERT INTO combat_hit_events(...)
EventRow(attacker_player_id, target_player_id, hit) ==
    [hit_id |-> hit.hit_id, attacker_player_id |-> attacker_player_id,
     target_player_id |-> target_player_id, weapon_id |-> hit.weapon_id,
     knockback_applied_x |-> hit.kx, knockback_applied_y |-> hit.ky,
     was_applied |-> hit.was_applied, server_reason |-> hit.reason]

register_hit(attacker_player_id, target_player_id) ==
    \E r \in {HitOutcome(profiles, Len(events), attacker_player_id, target_player_id)} :
    /\ r.ok => Len(events) < MaxHits
    /\ IF r.ok
       THEN /\ profiles' = IF r.hit.was_applied
                           THEN ApplyKnockback(profiles, target_player_id, r.hit.kx, r.hit.ky)
                           ELSE profiles
            /\ events' = Append(events, EventRow(attacker_player_id, target_player_id, r.hit))
       ELSE UNCHANGED <<profiles, events>>
    /\ last' = Call("register_hit", r.ok, r.code, r.hit)
    /\ UNCHANGED <<now, users, owned, quests>>
    /\ Counted

\* ------------------------------------------------- the store's environment
\* create_user: a row with a fresh user_id
create_user ==
    /\ Cardinality(users) < MaxUsers
    /\ users' = users \cup {FreshId(Cardinality(users))}
    /\ last' = Call("create_user", TRUE, "", NoHit)
    /\ UNCHANGED <<now, profiles, owned, quests, events>>
    /\ Counted

\* The column can_receive_pvp_knockback is read by register_hit and written by
\* no method of the server: it changes only by a write to the database file.
external_set_pvp(player_id, flag) ==
    /\ player_id \in PlayerIds(profiles)
    /\ profiles[player_id].can_receive_pvp_knockback # flag
    /\ profiles' = [profiles EXCEPT ![player_id].can_receive_pvp_knockback = flag]
    /\ last' = Call("external_set_pvp", TRUE, "", NoHit)
    /\ UNCHANGED <<now, users, owned, quests, events>>
    /\ Counted

\* time.time() moves on
Tick ==
    /\ now < MaxTime
    /\ now' = now + 1
    /\ last' = Call("tick", TRUE, "", NoHit)
    /\ UNCHANGED <<users, profiles, owned, quests, events>>
    /\ Counted

\* ------------------------------------------------------- DB: sessions, bans
\* create_session's row; stored is FALSE once the row is deleted
SessionRow(user_id, t) ==
    [user_id |-> user_id, issued_at |-> t, expires_at |-> t + SESSION_TTL_SECONDS,
     revoked_at |-> NoTime, stored |-> TRUE]

\* SELECT user_id, expires_at, revoked_at FROM auth_sessions WHERE session_id=?
\* (sid 0: no token, or one that was never issued)
SessionLookup(sess, sid) ==
    IF sid \in 1..Len(sess) /\ sess[sid].stored THEN <<sess[sid]>> ELSE <<>>

SessionValid_AtExpiry(row, t) == row.revoked_at = NoTime /\ row.expires_at >= t

\* not (row["revoked_at"] is not None or row["expires_at"] <= now)
SessionValid(row, t) == row.revoked_at = NoTime /\ row.expires_at > t

\* DELETE FROM auth_sessions WHERE session_id=?
DestroySession(sess, sid) ==
    IF sid \in 1..Len(sess) THEN [sess EXCEPT ![sid].stored = FALSE] ELSE sess

IsUserBanned_Permanent(bs, user_id, t) ==
    \E b \in bs : b.user_id = user_id /\ b.is_active /\ b.expires_at = NoTime

\* is_user_banned: an active row that has not expired
IsUserBanned(bs, user_id, t) ==
    \E b \in bs : /\ b.user_id = user_id
                  /\ b.is_active
                  /\ (b.expires_at = NoTime \/ b.expires_at > t)

\* ------------------------------------------------------------ PresenceStore
\* connect: a new dict {"connected_at": now, "last_seen": now} under user_id
ConnectCells(cs, t) == Append(cs, [connected_at |-> t, last_seen |-> t])

ConnectPresence(pres, cs, user_id) == (user_id :> (Len(cs) + 1)) @@ pres

DisconnectPresence_All(pres, user_id) == <<>>

\* disconnect: del self._presence_by_user[user_id], if it is there
DisconnectPresence(pres, user_id) == [u \in DOMAIN pres \ {user_id} |-> pres[u]]

\* touch: self._presence_by_user[user_id]["last_seen"] = now, if it is there
TouchCells(pres, cs, user_id, t) ==
    IF user_id \in DOMAIN pres THEN [cs EXCEPT ![pres[user_id]].last_seen = t] ELSE cs

\* online_user_ids: dict(self._presence_by_user), a new dict of the same entries
PresenceCopy(pres) == pres

\* ------------------------------------------------------ request threads
\* ThreadingHTTPServer runs each request on a thread of its own; the threads
\* share one DB, and every method of DB runs inside "with self._lock".
Threads == 1..MaxThreads

NoCall == [name |-> "none", p |-> 0, q |-> 0, weapon_id |-> NULL, pt |-> <<0, 0>>]

ThreadCall(name, p, q, weapon_id, pt) ==
    [name |-> name, p |-> p, q |-> q, weapon_id |-> weapon_id, pt |-> pt]

\* what a method returns: the (ok, code) pair or flag, the hit, the row read
Return(ok, code, hit, row) == [ok |-> ok, code |-> code, hit |-> hit, row |-> row]

NoReturn == Return(TRUE, "", NoHit, <<>>)

\* get_profile's result as a sequence: empty for None
ReadRow(profs, player_id) ==
    IF player_id \in PlayerIds(profs) THEN <<get_profile(profs, player_id)>> ELSE <<>>

\* no account, no session, no ban, nobody present
SessionsEmpty ==
    /\ accounts = <<>>
    /\ sessions = <<>>
    /\ bans = {}
    /\ presence = <<>>
    /\ cells = <<>>
    /\ shot = <<>>
    /\ plock = 0
    /\ caller = [t \in 1..MaxThreads |-> 0]

ThreadsIdle ==
    /\ lock = 0
    /\ pc = [t \in Threads |-> "idle"]
    /\ req = [t \in Threads |-> NoCall]
    /\ ret = [t \in Threads |-> NoReturn]
    /\ local = [t \in Threads |-> NoHit]
    /\ snap = [profiles |-> <<>>, events |-> <<>>]

\* ------------------------------------------------------------ specification
Init ==
    /\ now = 0
    /\ users = {}
    /\ profiles = <<>>
    /\ owned = {}
    /\ quests = {}
    /\ events = <<>>
    /\ last = Call("init", TRUE, "", NoHit)
    /\ calls = 0
    /\ ThreadsIdle
    /\ SessionsEmpty

\* Any method of the store with any of the arguments, or a step of its
\* environment.  The calls are made one after the other: each method is one
\* critical section of DB._lock.
Next ==
    \/ create_user
    \/ \E u \in UserArgs, s \in SkillArgs : create_profile(u, s)
    \/ \E p \in PlayerArgs, pt \in PointArgs : set_profile_position(p, pt)
    \/ \E p \in PlayerArgs, w \in WeaponArgs : set_profile_weapon(p, w)
    \/ \E p \in PlayerArgs, q \in QuestArgs : accept_quest(p, q)
    \/ \E a \in PlayerArgs, t \in PlayerArgs : register_hit(a, t)
    \/ \E p \in PlayerArgs, f \in BOOLEAN : external_set_pvp(p, f)
    \/ Tick

Spec == Init /\ [][Next]_vars

\* --------------------------------------------- the store under its threads
\* The calls a request thread can make.
ThreadCalls ==
    {ThreadCall("register_hit", a, t, NULL, <<0, 0>>) : a \in PlayerArgs, t \in PlayerArgs}
    \cup {ThreadCall("set_profile_position", p, 0, NULL, pt) : p \in PlayerArgs, pt \in PointArgs}
    \cup {ThreadCall("set_profile_weapon", p, 0, w, <<0, 0>>) : p \in PlayerArgs, w \in WeaponArgs}
    \cup {ThreadCall("get_profile", p, 0, NULL, <<0, 0>>) : p \in PlayerArgs}

storevars == <<now, users, profiles, owned, quests, events, last>>

\* a request arrives: its thread is about to call a method of the store
begin(t) ==
    /\ pc[t] = "idle"
    /\ calls < MaxThreadCalls
    /\ calls' = calls + 1
    /\ \E c \in ThreadCalls : req' = [req EXCEPT ![t] = c]
    /\ pc' = [pc EXCEPT ![t] = "wait"]
    /\ UNCHANGED <<sessionvars, storevars, lock, ret, local, snap>>

LockFree_Ignored(l) == TRUE

\* threading.Lock: acquire blocks until the lock is free
LockFree(l) == l = 0

\* "with self._lock": __enter__
acquire(t) ==
    /\ pc[t] = "wait"
    /\ LockFree(lock)
    /\ lock' = t
    /\ snap' = [profiles |-> profiles, events |-> events]
    /\ pc' = [pc EXCEPT ![t] = "locked"]
    /\ UNCHANGED <<sessionvars, storevars, calls, req, ret, local>>

\* register_hit: the two SELECTs, the checks and the vector
hit_validate(t) ==
    /\ pc[t] = "locked"
    /\ req[t].name = "register_hit"
    /\ \E r \in {HitOutcome(profiles, Len(events), req[t].p, req[t].q)} :
          IF r.ok
          THEN /\ local' = [local EXCEPT ![t] = r.hit]
               /\ pc' = [pc EXCEPT ![t] = "update"]
               /\ ret' = ret
          ELSE /\ ret' = [ret EXCEPT ![t] = Return(FALSE, r.code, NoHit, <<>>)]
               /\ pc' = [pc EXCEPT ![t] = "release"]
               /\ local' = local
    /\ UNCHANGED <<sessionvars, storevars, calls, lock, req, snap>>

\* register_hit: "if apply_knockback: UPDATE player_profiles ..."
hit_update(t) ==
    /\ pc[t] = "update"
    /\ profiles' = IF local[t].was_applied
                   THEN ApplyKnockback(profiles, req[t].q, local[t].kx, local[t].ky)
                   ELSE profiles
    /\ pc' = [pc EXCEPT ![t] = "insert"]
    /\ UNCHANGED <<sessionvars, now, users, owned, quests, events, last, calls, lock, req, ret, local, snap>>

\* register_hit: hit_id = secrets.token_hex(10); INSERT INTO combat_hit_events
hit_insert(t) ==
    /\ pc[t] = "insert"
    /\ \E h \in {[local[t] EXCEPT !.hit_id = NewHitId(Len(events))]} :
          /\ events' = Append(events, EventRow(req[t].p, req[t].q, h))
          /\ ret' = [ret EXCEPT ![t] = Return(TRUE, "", h, <<>>)]
    /\ pc' = [pc EXCEPT ![t] = "release"]
    /\ UNCHANGED <<sessionvars, now, users, profiles, owned, quests, last, calls, lock, req, local, snap>>

\* set_profile_position inside the lock
position_write(t) ==
    /\ pc[t] = "locked"
    /\ req[t].name = "set_profile_position"
    /\ profiles' = SetPosition(profiles, req[t].p, req[t].pt[1], req[t].pt[2])
    /\ ret' = [ret EXCEPT ![t] = Return(req[t].p \in PlayerIds(profiles), "", NoHit, <<>>)]
    /\ pc' = [pc EXCEPT ![t] = "release"]
    /\ UNCHANGED <<sessionvars, now, users, owned, quests, events, last, calls, lock, req, local, snap>>

\* set_profile_weapon inside the lock
weapon_write(t) ==
    /\ pc[t] = "locked"
    /\ req[t].name = "set_profile_weapon"
    /\ IF IsOwned(owned, req[t].p, req[t].weapon_id)
       THEN /\ profiles' = SetWeapon(profiles, req[t].p, req[t].weapon_id)
            /\ ret' = [ret EXCEPT ![t] = Return(TRUE, "", NoHit, <<>>)]
       ELSE /\ profiles' = profiles
            /\ ret' = [ret EXCEPT ![t] = Return(FALSE, "WEAPON_NOT_OWNED", NoHit, <<>>)]
    /\ pc' = [pc EXCEPT ![t] = "release"]
    /\ UNCHANGED <<sessionvars, now, users, owned, quests, events, last, calls, lock, req, local, snap>>

\* get_profile inside the lock
profile_read(t) ==
    /\ pc[t] = "locked"
    /\ req[t].name = "get_profile"
    /\ ret' = [ret EXCEPT ![t] = Return(TRUE, "", NoHit, ReadRow(profiles, req[t].p))]
    /\ pc' = [pc EXCEPT ![t] = "release"]
    /\ UNCHANGED <<sessionvars, storevars, calls, lock, req, local, snap>>

\* "with self._lock": __exit__, by return or at the end of the block
release(t) ==
    /\ pc[t] = "release"
    /\ lock' = 0
    /\ pc' = [pc EXCEPT ![t] = "idle"]
    /\ UNCHANGED <<sessionvars, storevars, calls, req, ret, local, snap>>

\* Two profiles of one user, the first with heavy_strike at the origin, the
\* second within reach or not, taking knockback or not; no request in progress.
InitThreads ==
    /\ now = 0
    /\ users = {1}
    /\ \E pt \in PointArgs, flag \in BOOLEAN :
          profiles = <<NewProfile(1, "heavy_strike"),
                       [NewProfile(1, NULL) EXCEPT !.pos_x = pt[1], !.pos_y = pt[2],
                                                   !.can_receive_pvp_knockback = flag]>>
    /\ owned = {<<p, StarterWeapons[i]>> : p \in 1..2, i \in 1..Len(StarterWeapons)}
    /\ quests = {}
    /\ events = <<>>
    /\ last = Call("init", TRUE, "", NoHit)
    /\ calls = 0
    /\ ThreadsIdle
    /\ SessionsEmpty

NextThreads ==
    \/ \E t \in Threads : begin(t)
    \/ \E t \in Threads : acquire(t)
    \/ \E t \in Threads : hit_validate(t)
    \/ \E t \in Threads : hit_update(t)
    \/ \E t \in Threads : hit_insert(t)
    \/ \E t \in Threads : position_write(t)
    \/ \E t \in Threads : weapon_write(t)
    \/ \E t \in Threads : profile_read(t)
    \/ \E t \in Threads : release(t)

SpecThreads == InitThreads /\ [][NextThreads]_vars

\* ------------------------------------------------- the handlers' requests
\* A request thread runs one handler; every call the handler makes to a store
\* is one critical section of that store's lock, and other threads run between
\* two calls.
OwnerPaths == {"/profiles/position", "/profiles/equip", "/profiles/quests/accept", "/combat/hit"}
SessionPaths == {"/session/connect", "/session/disconnect", "/session/online", "/catalog/weapons"}

\* the tokens a client may send: none (0), or one of those issued
SidArgs == 0..MaxUsers + 1

HttpCall(path, sid, p, q) == [name |-> path, sid |-> sid, p |-> p, q |-> q]

\* the position, the weapon and the quest the requests of a run ask for
HttpPoint == <<18, 24>>
HttpWeapon == "netherite_sword"
HttpQuest == "welcome_duel"

HttpCalls ==
    {HttpCall(path, sid, p, 0) : path \in OwnerPaths \ {"/combat/hit"}, sid \in SidArgs, p \in PlayerArgs}
    \cup {HttpCall("/combat/hit", sid, a, t) : sid \in SidArgs, a \in PlayerArgs, t \in PlayerArgs}
    \cup {HttpCall(path, sid, 0, 0) : path \in SessionPaths \cup {"/auth/logout"}, sid \in SidArgs}

tokenvars == <<accounts, sessions, bans>>
presencevars == <<presence, cells, shot, plock>>

\* err(handler, status, code, ...) and ok(handler, ...): the handler is done
Respond(t, ok, code) ==
    /\ ret' = [ret EXCEPT ![t] = Return(ok, code, NoHit, <<>>)]
    /\ pc' = [pc EXCEPT ![t] = "idle"]
    /\ req' = [req EXCEPT ![t] = NoCall]
    /\ caller' = [caller EXCEPT ![t] = 0]

\* the handler goes on to its next call, with user_id as it is or newly bound
ContinueAs(t, label, user_id) ==
    /\ ret' = ret
    /\ pc' = [pc EXCEPT ![t] = label]
    /\ req' = req
    /\ caller' = [caller EXCEPT ![t] = user_id]

Continue(t, label) == ContinueAs(t, label, caller[t])

\* resolve_session returned None: logout goes on, the others answer 401
Unresolved(t) ==
    IF req[t].name = "/auth/logout"
    THEN Continue(t, "logout_destroy")
    ELSE Respond(t, FALSE, "UNAUTHORIZED")

\* do_POST, do_GET: the request is routed to its handler
http_begin(t) ==
    /\ pc[t] = "idle"
    /\ calls < MaxRequests
    /\ calls' = calls + 1
    /\ \E c \in HttpCalls : req' = [req EXCEPT ![t] = c]
    /\ pc' = [pc EXCEPT ![t] = "resolve"]
    /\ caller' = [caller EXCEPT ![t] = 0]
    /\ UNCHANGED <<storevars, lock, ret, local, snap,
                   accounts, sessions, bans, presence, cells, shot, plock>>

\* resolve_session: the SELECT under the lock and the test of the row
\* (the handlers' runs read the clock at the SELECT)
resolve_select(t) ==
    /\ pc[t] = "resolve"
    /\ \E rows \in {SessionLookup(sessions, req[t].sid)} :
          IF rows = <<>>
          THEN Unresolved(t)
          ELSE IF ~SessionValid(rows[1], now)
          THEN Continue(t, "purge")
          ELSE ContinueAs(t, IF req[t].name = "/auth/logout" THEN "logout_disconnect" ELSE "ban",
                          rows[1].user_id)
    /\ UNCHANGED <<storevars, calls, lock, local, snap,
                   accounts, sessions, bans, presence, cells, shot, plock>>

\* resolve_session: self.destroy_session(sid); return None
resolve_purge(t) ==
    /\ pc[t] = "purge"
    /\ sessions' = DestroySession(sessions, req[t].sid)
    /\ Unresolved(t)
    /\ UNCHANGED <<storevars, calls, lock, local, snap,
                   accounts, bans, presence, cells, shot, plock>>

\* _auth_user_id: "if self.db.is_user_banned(user_id): return None"
ban_check(t) ==
    /\ pc[t] = "ban"
    /\ IF IsUserBanned(bans, caller[t], now)
       THEN Respond(t, FALSE, "UNAUTHORIZED")
       ELSE Continue(t, IF req[t].name \in OwnerPaths THEN "own" ELSE "act")
    /\ UNCHANGED <<storevars, calls, lock, local, snap, tokenvars, presencevars>>

OwnsProfile_Exists(rows, user_id) == rows # <<>>

\* not ("not profile or profile["user_id"] != user_id")
OwnsProfile(rows, user_id) == rows # <<>> /\ rows[1].user_id = user_id

\* profile = self.db.get_profile(player_id); 403 unless it is the user's own
owner_check(t) ==
    /\ pc[t] = "own"
    /\ \E rows \in {ReadRow(profiles, req[t].p)} :
          IF ~OwnsProfile(rows, caller[t])
          THEN Respond(t, FALSE, "FORBIDDEN")
          ELSE Continue(t, "act")
    /\ UNCHANGED <<storevars, calls, lock, local, snap, tokenvars, presencevars>>

\* _handle_update_position: self.db.set_profile_position(player_id, x, y)
act_position(t) ==
    /\ pc[t] = "act"
    /\ req[t].name = "/profiles/position"
    /\ profiles' = SetPosition(profiles, req[t].p, HttpPoint[1], HttpPoint[2])
    /\ Respond(t, TRUE, "")
    /\ UNCHANGED <<now, users, owned, quests, events, last,
                   calls, lock, local, snap, tokenvars, presencevars>>

\* _handle_equip_weapon: self.db.set_profile_weapon(player_id, weapon_id)
act_equip(t) ==
    /\ pc[t] = "act"
    /\ req[t].name = "/profiles/equip"
    /\ IF IsOwned(owned, req[t].p, HttpWeapon)
       THEN /\ profiles' = SetWeapon(profiles, req[t].p, HttpWeapon)
            /\ Respond(t, TRUE, "")
       ELSE /\ profiles' = profiles
            /\ Respond(t, FALSE, "WEAPON_NOT_OWNED")
    /\ UNCHANGED <<now, users, owned, quests, events, last,
                   calls, lock, local, snap, tokenvars, presencevars>>

\* _handle_accept_quest: self.db.accept_quest(player_id, quest_id)
act_quest(t) ==
    /\ pc[t] = "act"
    /\ req[t].name = "/profiles/quests/accept"
    /\ IF ~PlayerKeyHolds(profiles, req[t].p)
       THEN /\ quests' = quests
            /\ Respond(t, FALSE, "IntegrityError")
       ELSE /\ quests' = UpsertQuest(quests, req[t].p, HttpQuest, now)
            /\ Respond(t, TRUE, "")
    /\ UNCHANGED <<now, users, profiles, owned, events, last,
                   calls, lock, local, snap, tokenvars, presencevars>>

\* _handle_combat_hit: self.db.register_hit(attacker, target)
act_hit(t) ==
    /\ pc[t] = "act"
    /\ req[t].name = "/combat/hit"
    /\ \E r \in {HitOutcome(profiles, Len(events), req[t].p, req[t].q)} :
          IF r.ok
          THEN /\ profiles' = IF r.hit.was_applied
                              THEN ApplyKnockback(profiles, req[t].q, r.hit.kx, r.hit.ky)
                              ELSE profiles
               /\ events' = Append(events, EventRow(req[t].p, req[t].q, r.hit))
               /\ Respond(t, TRUE, "")
          ELSE /\ UNCHANGED <<profiles, events>>
               /\ Respond(t, FALSE, r.code)
    /\ UNCHANGED <<now, users, owned, quests, last,
                   calls, lock, local, snap, tokenvars, presencevars>>

\* _handle_connect: self.presence.connect(user_id)
act_connect(t) ==
    /\ pc[t] = "act"
    /\ req[t].name = "/session/connect"
    /\ presence' = ConnectPresence(presence, cells, caller[t])
    /\ cells' = ConnectCells(cells, now)
    /\ Respond(t, TRUE, "")
    /\ UNCHANGED <<storevars, calls, lock, local, snap,
                   accounts, sessions, bans, shot, plock>>

\* _handle_disconnect: self.presence.disconnect(user_id)
act_disconnect(t) ==
    /\ pc[t] = "act"
    /\ req[t].name = "/session/disconnect"
    /\ presence' = DisconnectPresence(presence, caller[t])
    /\ Respond(t, TRUE, "")
    /\ UNCHANGED <<storevars, calls, lock, local, snap,
                   accounts, sessions, bans, cells, shot, plock>>

\* _handle_online, _handle_world_state: self.presence.touch(user_id), then reads
act_online(t) ==
    /\ pc[t] = "act"
    /\ req[t].name = "/session/online"
    /\ cells' = TouchCells(presence, cells, caller[t], now)
    /\ Respond(t, TRUE, "")
    /\ UNCHANGED <<storevars, calls, lock, local, snap,
                   accounts, sessions, bans, presence, shot, plock>>

\* _handle_list_weapons, _skills, _quests, _handle_profile_me, _handle_list_profiles:
\* reads only
act_catalog(t) ==
    /\ pc[t] = "act"
    /\ req[t].name = "/catalog/weapons"
    /\ Respond(t, TRUE, "")
    /\ UNCHANGED <<storevars, calls, lock, local, snap, tokenvars, presencevars>>

\* _handle_logout: "if user_id: self.presence.disconnect(user_id)"
logout_disconnect(t) ==
    /\ pc[t] = "logout_disconnect"
    /\ presence' = DisconnectPresence(presence, caller[t])
    /\ Continue(t, "logout_destroy")
    /\ UNCHANGED <<storevars, calls, lock, local, snap,
                   accounts, sessions, bans, cells, shot, plock>>

\* _handle_logout: self.db.destroy_session(sid); ok(...)
logout_destroy(t) ==
    /\ pc[t] = "logout_destroy"
    /\ sessions' = DestroySession(sessions, req[t].sid)
    /\ Respond(t, TRUE, "")
    /\ UNCHANGED <<storevars, calls, lock, local, snap,
                   accounts, bans, presence, cells, shot, plock>>

\* Table user_bans is read by is_user_banned and written by no method of the
\* server: a ban is set, and lifted, by a write to the database file.
BanRow(user_id, expires_at) == [user_id |-> user_id, expires_at |-> expires_at, is_active |-> TRUE]

external_ban(user_id, expires_at) ==
    /\ user_id \in users
    /\ bans = {}
    /\ bans' = bans \cup {BanRow(user_id, expires_at)}
    /\ UNCHANGED <<storevars, threadvars, calls,
                   accounts, sessions, presence, cells, shot, plock, caller>>

external_unban(user_id) ==
    /\ \E b \in bans : b.user_id = user_id /\ b.is_active
    /\ bans' = {IF b.user_id = user_id THEN [b EXCEPT !.is_active = FALSE] ELSE b : b \in bans}
    /\ UNCHANGED <<storevars, threadvars, calls,
                   accounts, sessions, presence, cells, shot, plock, caller>>

\* time.time() reaches the moment the sessions of the start expire
SessionsLapse ==
    /\ now < SESSION_TTL_SECONDS
    /\ now' = SESSION_TTL_SECONDS
    /\ UNCHANGED <<users, profiles, owned, quests, events, last,
                   threadvars, calls, sessionvars>>

\* Users 1..MaxUsers+1, each with one profile and one session issued at 0; the
\* profiles stand within reach of each other; nobody banned, nobody present.
InitHttp ==
    /\ now = 0
    /\ users = 1..(MaxUsers + 1)
    /\ profiles = [u \in 1..(MaxUsers + 1) |->
                     [NewProfile(u, IF u = 1 THEN "heavy_strike" ELSE NULL)
                        EXCEPT !.pos_x = 20 * (u - 1)]]
    /\ owned = {<<p, StarterWeapons[i]>> : p \in 1..(MaxUsers + 1), i \in 1..Len(StarterWeapons)}
    /\ quests = {}
    /\ events = <<>>
    /\ last = Call("init", TRUE, "", NoHit)
    /\ calls = 0
    /\ ThreadsIdle
    /\ accounts = <<>>
    /\ sessions = [u \in 1..(MaxUsers + 1) |-> SessionRow(u, 0)]
    /\ bans = {}
    /\ presence = <<>>
    /\ cells = <<>>
    /\ shot = <<>>
    /\ plock = 0
    /\ caller = [t \in Threads |-> 0]

NextHttp ==
    \/ \E t \in Threads : http_begin(t)
    \/ \E t \in Threads : resolve_select(t)
    \/ \E t \in Threads : resolve_purge(t)
    \/ \E t \in Threads : ban_check(t)
    \/ \E t \in Threads : owner_check(t)
    \/ \E t \in Threads : act_position(t)
    \/ \E t \in Threads : act_equip(t)
    \/ \E t \in Threads : act_quest(t)
    \/ \E t \in Threads : act_hit(t)
    \/ \E t \in Threads : act_connect(t)
    \/ \E t \in Threads : act_disconnect(t)
    \/ \E t \in Threads : act_online(t)
    \/ \E t \in Threads : act_catalog(t)
    \/ \E t \in Threads : logout_disconnect(t)
    \/ \E t \in Threads : logout_destroy(t)
    \/ \E u \in UserArgs, e \in {NoTime, SESSION_TTL_SECONDS} : external_ban(u, e)
    \/ \E u \in UserArgs : external_unban(u)
    \/ SessionsLapse

SpecHttp == InitHttp /\ [][NextHttp]_vars

\* ------------------------------------------------- the session methods
\* create_session, resolve_session and destroy_session called by the request
\* threads.  Each reads int(time.time()) before it takes the lock;
\* resolve_session tests the row after it has released the lock and deletes a
\* stale row in a second critical section (destroy_session).
SessionCall(name, sid, user_id, t) == [name |-> name, sid |-> sid, user_id |-> user_id, now |-> t]

\* time.time() is the wall clock: it can be set back
SessionTimes == {0, SESSION_TTL_SECONDS - 1, SESSION_TTL_SECONDS}

\* a caller presents no token (0) or a token that was issued
session_begin(t) ==
    /\ pc[t] = "idle"
    /\ calls < MaxSessionCalls
    /\ calls' = calls + 1
    /\ \E c \in {SessionCall("create_session", 0, u, now) : u \in UserArgs}
              \cup {SessionCall("resolve_session", sid, 0, now) : sid \in 0..Len(sessions)}
              \cup {SessionCall("destroy_session", sid, 0, now) : sid \in 0..Len(sessions)} :
          req' = [req EXCEPT ![t] = c]
    /\ pc' = [pc EXCEPT ![t] = "call"]
    /\ UNCHANGED <<storevars, lock, ret, local, snap, sessionvars>>

\* create_session: the INSERT; FOREIGN KEY (user_id) REFERENCES users(user_id)
session_create(t) ==
    /\ pc[t] = "call"
    /\ req[t].name = "create_session"
    /\ IF UserKeyHolds(users, req[t].user_id)
       THEN /\ Len(sessions) < MaxSessions
            /\ sessions' = Append(sessions, SessionRow(req[t].user_id, req[t].now))
            /\ ret' = [ret EXCEPT ![t] = Return(TRUE, "", NoHit, <<Len(sessions) + 1>>)]
       ELSE /\ sessions' = sessions
            /\ ret' = [ret EXCEPT ![t] = Return(FALSE, "IntegrityError", NoHit, <<>>)]
    /\ pc' = [pc EXCEPT ![t] = "idle"]
    /\ UNCHANGED <<storevars, calls, lock, req, local, snap,
                   accounts, bans, presencevars, caller>>

\* resolve_session: the SELECT, and the test of the row against the clock read
session_select(t) ==
    /\ pc[t] = "call"
    /\ req[t].name = "resolve_session"
    /\ \E rows \in {SessionLookup(sessions, req[t].sid)} :
          IF rows = <<>>
          THEN /\ ret' = [ret EXCEPT ![t] = Return(FALSE, "", NoHit, <<>>)]
               /\ pc' = [pc EXCEPT ![t] = "idle"]
          ELSE IF ~SessionValid(rows[1], req[t].now)
          THEN /\ ret' = ret
               /\ pc' = [pc EXCEPT ![t] = "purge"]
          ELSE /\ ret' = [ret EXCEPT ![t] = Return(TRUE, "", NoHit, <<rows[1].user_id>>)]
               /\ pc' = [pc EXCEPT ![t] = "idle"]
    /\ UNCHANGED <<storevars, calls, lock, req, local, snap, sessionvars>>

\* resolve_session: self.destroy_session(sid); return None
session_purge(t) ==
    /\ pc[t] = "purge"
    /\ req[t].name = "resolve_session"
    /\ sessions' = DestroySession(sessions, req[t].sid)
    /\ ret' = [ret EXCEPT ![t] = Return(FALSE, "", NoHit, <<>>)]
    /\ pc' = [pc EXCEPT ![t] = "idle"]
    /\ UNCHANGED <<storevars, calls, lock, req, local, snap,
                   accounts, bans, presencevars, caller>>

\* destroy_session: the DELETE; True when a row went
session_destroy(t) ==
    /\ pc[t] = "call"
    /\ req[t].name = "destroy_session"
    /\ sessions' = DestroySession(sessions, req[t].sid)
    /\ ret' = [ret EXCEPT ![t] = Return(SessionLookup(sessions, req[t].sid) # <<>>, "", NoHit, <<>>)]
    /\ pc' = [pc EXCEPT ![t] = "idle"]
    /\ UNCHANGED <<storevars, calls, lock, req, local, snap,
                   accounts, bans, presencevars, caller>>

\* Column revoked_at is read by resolve_session and written by no method of
\* the server: a session is revoked by a write to the database file.
external_revoke(sid) ==
    /\ sid \in 1..Len(sessions)
    /\ sessions[sid].stored
    /\ sessions[sid].revoked_at = NoTime
    /\ sessions' = [sessions EXCEPT ![sid].revoked_at = now]
    /\ UNCHANGED <<storevars, threadvars, calls, accounts, bans, presencevars, caller>>

ClockStep ==
    /\ \E t \in SessionTimes \ {now} : now' = t
    /\ UNCHANGED <<users, profiles, owned, quests, events, last,
                   threadvars, calls, sessionvars>>

InitSessions ==
    /\ now = 0
    /\ users = 1..MaxUsers
    /\ profiles = <<>>
    /\ owned = {}
    /\ quests = {}
    /\ events = <<>>
    /\ last = Call("init", TRUE, "", NoHit)
    /\ calls = 0
    /\ ThreadsIdle
    /\ SessionsEmpty

NextSessions ==
    \/ \E t \in Threads : session_begin(t)
    \/ \E t \in Threads : session_create(t)
    \/ \E t \in Threads : session_select(t)
    \/ \E t \in Threads : session_purge(t)
    \/ \E t \in Threads : session_destroy(t)
    \/ \E sid \in 1..MaxSessions : external_revoke(sid)
    \/ ClockStep

SpecSessions == InitSessions /\ [][NextSessions]_vars

\* ------------------------------------------------------- DB: the accounts
\* usernames and emails a caller may give
NameArgs == {"alice", "Alice", " alice ", "bob"}
EmailArgs == {"a@x.io", "A@x.io", "b@x.io"}

\* str.strip() on the strings above
Strip(str) == IF str = " alice " THEN "alice" ELSE str

\* str.lower() and SQL lower() on the strings above
Lower(str) ==
    CASE str = "Alice" -> "alice"
      [] str = "A@x.io" -> "a@x.io"
      [] OTHER -> str

\* username TEXT NOT NULL UNIQUE, email TEXT NOT NULL UNIQUE: the INSERT
\* raises IntegrityError when a row has the same username or the same email
\* (SQLite compares TEXT with BINARY collation)
UniqueHolds(rows, username, email) ==
    \A i \in 1..Len(rows) : rows[i].username # username /\ rows[i].email # email

\* create_user(username, email, password): the row holds the stripped strings
create_account(username, email) ==
    /\ IF UniqueHolds(accounts, Strip(username), Strip(email))
       THEN /\ Len(accounts) < MaxAccounts
            /\ accounts' = Append(accounts, [username |-> Strip(username), email |-> Strip(email)])
            /\ users' = users \cup {FreshId(Len(accounts))}
            /\ last' = Call("create_user", TRUE, "", NoHit)
       ELSE /\ UNCHANGED <<accounts, users>>
            /\ last' = Call("create_user", FALSE, "DUPLICATE_USER", NoHit)
    /\ UNCHANGED <<now, profiles, owned, quests, events, calls, threadvars,
                   sessions, bans, presencevars, caller>>

\* find_user_by_credential: WHERE lower(username)=? OR lower(email)=?, the
\* first row; last.code is the username found ("" for None)
find_user_by_credential(credential) ==
    /\ \E found \in {{i \in 1..Len(accounts) :
                        \/ Lower(accounts[i].username) = Lower(Strip(credential))
                        \/ Lower(accounts[i].email) = Lower(Strip(credential))}} :
          last' = IF found = {}
                  THEN Call("find_user_by_credential", FALSE, "", NoHit)
                  ELSE Call("find_user_by_credential", TRUE,
                            accounts[CHOOSE i \in found : \A j \in found : i <= j].username, NoHit)
    /\ UNCHANGED <<now, users, profiles, owned, quests, events, calls, threadvars, sessionvars>>

InitAccounts ==
    /\ now = 0
    /\ users = {}
    /\ profiles = <<>>
    /\ owned = {}
    /\ quests = {}
    /\ events = <<>>
    /\ last = Call("init", TRUE, "", NoHit)
    /\ calls = 0
    /\ ThreadsIdle
    /\ SessionsEmpty

NextAccounts ==
    \/ \E username \in NameArgs, email \in EmailArgs : create_account(username, email)
    \/ \E credential \in NameArgs \cup EmailArgs : find_user_by_credential(credential)

SpecAccounts == InitAccounts /\ [][NextAccounts]_vars

\* ------------------------------------------------- the presence tracker
\* The methods of PresenceStore, each one critical section of its lock, called
\* one after the other by the request threads; a caller keeps the dict that
\* online_user_ids returned while later calls run.
dbvars == <<users, profiles, owned, quests, events, last, calls, threadvars,
            accounts, sessions, bans, plock, caller>>

connect(user_id) ==
    /\ Len(cells) < MaxCells
    /\ presence' = ConnectPresence(presence, cells, user_id)
    /\ cells' = ConnectCells(cells, now)
    /\ UNCHANGED <<now, shot, dbvars>>

disconnect(user_id) ==
    /\ presence' = DisconnectPresence(presence, user_id)
    /\ UNCHANGED <<now, cells, shot, dbvars>>

touch(user_id) ==
    /\ cells' = TouchCells(presence, cells, user_id, now)
    /\ UNCHANGED <<now, presence, shot, dbvars>>

online_user_ids ==
    /\ shot' = PresenceCopy(presence)
    /\ UNCHANGED <<now, presence, cells, dbvars>>

InitPresence ==
    /\ now = 0
    /\ users = UserArgs
    /\ profiles = <<>>
    /\ owned = {}
    /\ quests = {}
    /\ events = <<>>
    /\ last = Call("init", TRUE, "", NoHit)
    /\ calls = 0
    /\ ThreadsIdle
    /\ SessionsEmpty

NextPresence ==
    \/ \E u \in UserArgs : connect(u)
    \/ \E u \in UserArgs : disconnect(u)
    \/ \E u \in UserArgs : touch(u)
    \/ online_user_ids
    \/ ClockStep

SpecPresence == InitPresence /\ [][NextPresence]_vars

\* ------------------------------------------------------- the two locks
\* What each method and each handler does with DB._lock ("db") and
\* PresenceStore._lock ("presence"), as the sequence of acquisitions and
\* releases of every path through it.  threading.Lock is not reentrant: an
\* acquire by the holder blocks like any other.
Section(l) == <<[op |-> "acquire", lock |-> l], [op |-> "release", lock |-> l]>>

\* the paths of A followed by the paths of B
Then(A, B) == {a \o b : a \in A, b \in B}

\* a DB method that is one "with self._lock" block: is_user_banned,
\* find_user_by_id, get_profile, set_profile_position, register_hit, ...
locks_db_method == {Section("db")}

\* connect, disconnect, touch, online_user_ids
locks_presence_method == {Section("presence")}

\* destroy_session: "if not sid: return False", else one block
locks_destroy_session == {<<>>, Section("db")}

\* resolve_session: no sid; the SELECT block; the SELECT block and then,
\* outside it, destroy_session
locks_resolve_session ==
    {<<>>, Section("db")} \cup Then({Section("db")}, locks_destroy_session)

locks_create_profile_nested ==
    {<<[op |-> "acquire", lock |-> "db"], [op |-> "acquire", lock |-> "db"],
       [op |-> "release", lock |-> "db"], [op |-> "release", lock |-> "db"]>>}

\* create_profile: the block (left by return or by an exception), or the
\* block and then, outside it, get_profile
locks_create_profile == {Section("db")} \cup Then({Section("db")}, locks_db_method)

\* _auth_user_id returning a user: resolve_session, is_user_banned
locks_auth_passes == Then({Section("db")}, locks_db_method)

\* _auth_user_id returning None: no session, or a banned user
locks_auth_fails == locks_resolve_session \cup Then({Section("db")}, locks_db_method)

\* a handler that answers 401 or goes on with the paths of Rest
Authenticated(Rest) == locks_auth_fails \cup Then(locks_auth_passes, Rest)

\* _handle_update_position, _equip_weapon, _accept_quest, _combat_hit:
\* get_profile, then 403 or the store call
locks_handle_owner ==
    Authenticated(locks_db_method \cup Then(locks_db_method, locks_db_method))

locks_handle_create_profile == Authenticated(locks_create_profile)

\* _handle_connect: presence.connect, db.find_user_by_id
locks_handle_connect == Authenticated(Then(locks_presence_method, locks_db_method))

locks_handle_disconnect == Authenticated(locks_presence_method)

\* _handle_online: touch, online_user_ids, find_user_by_id for each entry
locks_handle_online ==
    Authenticated(Then(Then(locks_presence_method, locks_presence_method),
                       {<<>>} \cup locks_db_method \cup Then(locks_db_method, locks_db_method)))

\* _handle_world_state: touch, list_all_profiles, online_user_ids
locks_handle_world_state ==
    Authenticated(Then(Then(locks_presence_method, locks_db_method), locks_presence_method))

\* _handle_logout: resolve_session, presence.disconnect if it resolved, destroy_session
locks_handle_logout ==
    Then(locks_resolve_session, locks_destroy_session)
    \cup Then(Then({Section("db")}, locks_presence_method), locks_destroy_session)

\* _handle_login: find_user_by_credential, is_user_banned, create_session, update_last_login
locks_handle_login ==
    locks_db_method \cup Then(locks_db_method, locks_db_method)
    \cup Then(Then(locks_db_method, locks_db_method), Then(locks_db_method, locks_db_method))

LockCall(name, prog) == [name |-> name, prog |-> prog]

LockCalls ==
    {LockCall("resolve_session", g) : g \in locks_resolve_session}
    \cup {LockCall("destroy_session", g) : g \in locks_destroy_session}
    \cup {LockCall("create_profile", g) : g \in locks_create_profile}
    \cup {LockCall("get_profile", g) : g \in locks_db_method}
    \cup {LockCall("touch", g) : g \in locks_presence_method}
    \cup {LockCall("_handle_update_position", g) : g \in locks_handle_owner}
    \cup {LockCall("_handle_create_profile", g) : g \in locks_handle_create_profile}
    \cup {LockCall("_handle_connect", g) : g \in locks_handle_connect}
    \cup {LockCall("_handle_disconnect", g) : g \in locks_handle_disconnect}
    \cup {LockCall("_handle_online", g) : g \in locks_handle_online}
    \cup {LockCall("_handle_world_state", g) : g \in locks_handle_world_state}
    \cup {LockCall("_handle_logout", g) : g \in locks_handle_logout}
    \cup {LockCall("_handle_login", g) : g \in locks_handle_login}

\* what a step on the locks leaves alone
lockless == <<now, users, profiles, owned, quests, events, last, ret, local, snap,
              accounts, sessions, bans, presence, cells, shot, caller>>

\* the next thing thread t does with a lock
NextOp(t) == Head(req[t].prog)

lock_begin(t) ==
    /\ pc[t] = "idle"
    /\ calls < MaxLockCalls
    /\ calls' = calls + 1
    /\ \E c \in LockCalls : req' = [req EXCEPT ![t] = c]
    /\ pc' = [pc EXCEPT ![t] = "run"]
    /\ UNCHANGED <<lock, plock, lockless>>

\* "with self._lock": __enter__ waits until the lock is free
lock_acquire(t) ==
    /\ pc[t] = "run"
    /\ req[t].prog # <<>>
    /\ NextOp(t).op = "acquire"
    /\ IF NextOp(t).lock = "db"
       THEN LockFree(lock) /\ lock' = t /\ plock' = plock
       ELSE LockFree(plock) /\ plock' = t /\ lock' = lock
    /\ req' = [req EXCEPT ![t].prog = Tail(@)]
    /\ UNCHANGED <<pc, calls, lockless>>

\* "with self._lock": __exit__
lock_release(t) ==
    /\ pc[t] = "run"
    /\ req[t].prog # <<>>
    /\ NextOp(t).op = "release"
    /\ IF NextOp(t).lock = "db"
       THEN lock' = 0 /\ plock' = plock
       ELSE plock' = 0 /\ lock' = lock
    /\ req' = [req EXCEPT ![t].prog = Tail(@)]
    /\ UNCHANGED <<pc, calls, lockless>>

\* the method returns, the handler has written its response
lock_return(t) ==
    /\ pc[t] = "run"
    /\ req[t].prog = <<>>
    /\ pc' = [pc EXCEPT ![t] = "idle"]
    /\ UNCHANGED <<req, calls, lock, plock, lockless>>

InitLocks ==
    /\ now = 0
    /\ users = {}
    /\ profiles = <<>>
    /\ owned = {}
    /\ quests = {}
    /\ events = <<>>
    /\ last = Call("init", TRUE, "", NoHit)
    /\ calls = 0
    /\ ThreadsIdle
    /\ SessionsEmpty

NextLocks ==
    \/ \E t \in Threads : lock_begin(t)
    \/ \E t \in Threads : lock_acquire(t)
    \/ \E t \in Threads : lock_release(t)
    \/ \E t \in Threads : lock_return(t)

\* a step of thread t once its call has begun
Proceed(t) == lock_acquire(t) \/ lock_release(t) \/ lock_return(t)

\* Fair scheduling: a thread that can go on, does; requests arrive or not.
SpecLocks == InitLocks /\ [][NextLocks]_vars /\ \A t \in Threads : WF_vars(Proceed(t))

\* ------------------------------------------- register_hit on any two rows
\* register_hit reads whatever rows player_profiles holds.  The methods of the
\* server leave every profile with an equipped weapon of the catalog; a
\* database file can hold rows with none (the column is TEXT NULL) or with one
\* the catalog lacks.
EquippedArgs == {NULL, "diamond_sword", "no_such_weapon"}

InitRows ==
    /\ now = 0
    /\ users = {1}
    /\ \E wa \in EquippedArgs, wt \in EquippedArgs, pt \in PointArgs, flag \in BOOLEAN :
          profiles = <<[NewProfile(1, "heavy_strike") EXCEPT !.equipped_weapon_id = wa],
                       [NewProfile(1, NULL) EXCEPT !.equipped_weapon_id = wt,
                                                   !.pos_x = pt[1], !.pos_y = pt[2],
                                                   !.can_receive_pvp_knockback = flag]>>
    /\ owned = {<<p, StarterWeapons[i]>> : p \in 1..2, i \in 1..Len(StarterWeapons)}
    /\ quests = {}
    /\ events = <<>>
    /\ last = Call("init", TRUE, "", NoHit)
    /\ calls = 0
    /\ ThreadsIdle
    /\ SessionsEmpty

NextRows == \E a \in PlayerArgs, t \in PlayerArgs : register_hit(a, t)

SpecRows == InitRows /\ [][NextRows]_vars

\* ------------------------------------- register_hit and the attacker's skill
\* The skill_id a row of player_profiles can hold: create_profile stores None
\* or a skill of the catalog; register_hit also provides for an empty one and
\* for one its SELECT does not find.
SkillRowArgs == {NULL, "", "novice", "heavy_strike", "no_such_skill"}

InitSkills ==
    /\ now = 0
    /\ users = {1}
    /\ \E sk \in SkillRowArgs, w \in DOMAIN WeaponCatalog, pt \in PointArgs, flag \in BOOLEAN :
          profiles = <<[NewProfile(1, sk) EXCEPT !.equipped_weapon_id = w],
                       [NewProfile(1, NULL) EXCEPT !.pos_x = pt[1], !.pos_y = pt[2],
                                                   !.can_receive_pvp_knockback = flag]>>
    /\ owned = {<<p, StarterWeapons[i]>> : p \in 1..2, i \in 1..Len(StarterWeapons)}
    /\ quests = {}
    /\ events = <<>>
    /\ last = Call("init", TRUE, "", NoHit)
    /\ calls = 0
    /\ ThreadsIdle
    /\ SessionsEmpty

NextSkills == \E a \in PlayerArgs, t \in PlayerArgs : register_hit(a, t)

SpecSkills == InitSkills /\ [][NextSkills]_vars

\* --------------------------------------- the store's methods on a full world
\* Two users, each with one profile, one session and a different sword
\* equipped; the first profile has a skill and stands at the origin, the
\* second stands at one of the points and takes knockback or not; the second
\* has accepted a quest and the first user is connected.
InitWorld ==
    /\ now = 0
    /\ users = {1, 2}
    /\ \E pt \in PointArgs, flag \in BOOLEAN :
          profiles = <<NewProfile(1, "heavy_strike"),
                       [NewProfile(2, NULL) EXCEPT !.equipped_weapon_id = StarterWeapons[2],
                                                   !.pos_x = pt[1], !.pos_y = pt[2],
                                                   !.can_receive_pvp_knockback = flag]>>
    /\ owned = {<<p, StarterWeapons[i]>> : p \in 1..2, i \in 1..Len(StarterWeapons)}
    /\ quests = UpsertQuest({}, 2, "welcome_duel", 0)
    /\ events = <<>>
    /\ last = Call("init", TRUE, "", NoHit)
    /\ calls = 0
    /\ ThreadsIdle
    /\ accounts = <<>>
    /\ sessions = <<SessionRow(1, 0), SessionRow(2, 0)>>
    /\ bans = {}
    /\ presence = ConnectPresence(<<>>, <<>>, 1)
    /\ cells = ConnectCells(<<>>, 0)
    /\ shot = <<>>
    /\ plock = 0
    /\ caller = [t \in Threads |-> 0]

NextWorld ==
    \/ \E a \in PlayerArgs, t \in PlayerArgs : register_hit(a, t)
    \/ \E p \in PlayerArgs, pt \in PointArgs : set_profile_position(p, pt)

SpecWorld == InitWorld /\ [][NextWorld]_vars

\* ------------------------------------------- create_profile under threads
\* create_profile statement by statement inside its critical section, next to
\* the calls that read or write the equipped weapon.  The transaction of the
\* section is committed when the block ends; a statement that raises rolls it
\* back (here the INSERT of the row is the first write, so nothing is undone).
CreateCalls ==
    {ThreadCall("create_profile", u, 0, NULL, <<0, 0>>) : u \in UserArgs}
    \cup {ThreadCall("register_hit", a, t, NULL, <<0, 0>>) : a \in PlayerArgs, t \in PlayerArgs}
    \cup {ThreadCall("set_profile_weapon", p, 0, w, <<0, 0>>) : p \in PlayerArgs, w \in WeaponArgs}

\* the calls of create_profile that have not yet inserted their row
Creating == {t \in Threads : req[t].name = "create_profile" /\ pc[t] \in {"wait", "locked"}}

\* a request arrives; player_profiles is kept to MaxProfiles rows
create_begin(t) ==
    /\ pc[t] = "idle"
    /\ calls < MaxThreadCalls
    /\ calls' = calls + 1
    /\ \E c \in CreateCalls :
          /\ c.name = "create_profile" => Len(profiles) + Cardinality(Creating) < MaxProfiles
          /\ req' = [req EXCEPT ![t] = c]
    /\ pc' = [pc EXCEPT ![t] = "wait"]
    /\ UNCHANGED <<sessionvars, storevars, lock, ret, local, snap>>

\* INSERT INTO player_profiles(...) VALUES(?, ?, ?, ?, NULL, 0, 0, 1, ...)
InsertProfile(profs, user_id, skill_id) ==
    Append(profs, [NewProfile(user_id, skill_id) EXCEPT !.equipped_weapon_id = NULL])

\* INSERT INTO player_weapons_owned: both swords
GrantStarters(own, player_id) ==
    own \cup {<<player_id, StarterWeapons[i]>> : i \in 1..Len(StarterWeapons)}

EquipStarter_Skipped(profs, player_id) == profs

\* UPDATE player_profiles SET equipped_weapon_id='diamond_sword' WHERE player_id=?
EquipStarter(profs, player_id) == SetWeapon(profs, player_id, StarterWeapons[1])

\* create_profile with skill_id None: the INSERT of the row (player_id, a
\* fresh token, is kept in the call's q)
profile_insert(t) ==
    /\ pc[t] = "locked"
    /\ req[t].name = "create_profile"
    /\ IF ~UserKeyHolds(users, req[t].p)
       THEN /\ profiles' = profiles
            /\ req' = req
            /\ ret' = [ret EXCEPT ![t] = Return(FALSE, "IntegrityError", NoHit, <<>>)]
            /\ pc' = [pc EXCEPT ![t] = "release"]
       ELSE /\ profiles' = InsertProfile(profiles, req[t].p, NULL)
            /\ req' = [req EXCEPT ![t].q = FreshId(Len(profiles))]
            /\ ret' = ret
            /\ pc' = [pc EXCEPT ![t] = "inserted"]
    /\ UNCHANGED <<sessionvars, now, users, owned, quests, events, last, calls, lock, local, snap>>

\* create_profile: the executemany that grants the two swords
weapons_insert(t) ==
    /\ pc[t] = "inserted"
    /\ owned' = GrantStarters(owned, req[t].q)
    /\ pc' = [pc EXCEPT ![t] = "granted"]
    /\ UNCHANGED <<sessionvars, now, users, profiles, quests, events, last, calls, lock, req, ret, local, snap>>

\* create_profile: the UPDATE that equips the diamond sword
weapon_equip(t) ==
    /\ pc[t] = "granted"
    /\ profiles' = EquipStarter(profiles, req[t].q)
    /\ pc' = [pc EXCEPT ![t] = "created"]
    /\ UNCHANGED <<sessionvars, now, users, owned, quests, events, last, calls, lock, req, ret, local, snap>>

\* create_profile: the block ends (commit, lock released), then
\* "return True, self.get_profile(player_id)" takes the lock again
created_release(t) ==
    /\ pc[t] = "created"
    /\ lock' = 0
    /\ req' = [req EXCEPT ![t] = ThreadCall("get_profile", req[t].q, 0, NULL, <<0, 0>>)]
    /\ pc' = [pc EXCEPT ![t] = "wait"]
    /\ UNCHANGED <<sessionvars, storevars, calls, ret, local, snap>>

\* One user with one profile at the origin; no request in progress.
InitCreate ==
    /\ now = 0
    /\ users = {1}
    /\ profiles = <<NewProfile(1, "heavy_strike")>>
    /\ owned = GrantStarters({}, 1)
    /\ quests = {}
    /\ events = <<>>
    /\ last = Call("init", TRUE, "", NoHit)
    /\ calls = 0
    /\ ThreadsIdle
    /\ SessionsEmpty

NextCreate ==
    \/ \E t \in Threads : create_begin(t)
    \/ \E t \in Threads : acquire(t)
    \/ \E t \in Threads : profile_insert(t)
    \/ \E t \in Threads : weapons_insert(t)
    \/ \E t \in Threads : weapon_equip(t)
    \/ \E t \in Threads : created_release(t)
    \/ \E t \in Threads : hit_validate(t)
    \/ \E t \in Threads : hit_update(t)
    \/ \E t \in Threads : hit_insert(t)
    \/ \E t \in Threads : weapon_write(t)
    \/ \E t \in Threads : profile_read(t)
    \/ \E t \in Threads : release(t)

SpecCreate == InitCreate /\ [][NextCreate]_vars

\* ================================================================= claims
\* What the claims speak of, read off the tables directly.
Exists(p) == p \in 1..Len(profiles)
Dist2(a, t) ==
    (profiles[t].pos_x - profiles[a].pos_x) * (profiles[t].pos_x - profiles[a].pos_x)
    + (profiles[t].pos_y - profiles[a].pos_y) * (profiles[t].pos_y - profiles[a].pos_y)
InRange(a, t) == Dist2(a, t) <= MAX_HIT_DISTANCE * MAX_HIT_DISTANCE
WeaponResolves(a) == profiles[a].equipped_weapon_id \in DOMAIN WeaponCatalog
\* base_knockback(weapon) * multiplier(skill), in tenths
ClaimedForce(a) ==
    (WeaponCatalog[profiles[a].equipped_weapon_id]
     * (IF profiles[a].skill_id \in DOMAIN SkillCatalog
        THEN SkillCatalog[profiles[a].skill_id] ELSE 10)) \div 10

\* (kx, ky) is f * unit(dx, dy) to the nearest tenth: parallel to (dx, dy), pointing
\* the same way, of length f, and exactly f * (dx, dy) / d when that is a whole
\* number of tenths; (f, 0) when (dx, dy) = (0, 0).
IsForceTimesUnit(kx, ky, dx, dy, f) ==
    IF dx = 0 /\ dy = 0
    THEN kx = f /\ ky = 0
    ELSE /\ 2 * Abs(kx * dy - ky * dx) <= Abs(dx) + Abs(dy)
         /\ kx * dx + ky * dy > 0
         /\ (f - 1) * (f - 1) < kx * kx + ky * ky
         /\ kx * kx + ky * ky < (f + 1) * (f + 1)
         /\ \A d \in 1..MAX_HIT_DISTANCE :
               (d * d = dx * dx + dy * dy /\ (f * dx) % d = 0 /\ (f * dy) % d = 0)
               => (kx * d = f * dx /\ ky * d = f * dy)

\* C1: a register_hit whose attacker and target exist, whose attacker's weapon is
\* in the catalog, whose distance is at most 3.0 and whose target accepts knockback
\* succeeds and moves the target by force * unit(target - attacker), with
\* force = base_knockback * skill multiplier; attacker (0,0) with heavy_strike and
\* target (2,0) give knockback (14.4, 0) and the new target position (16.4, 0).
C1_KnockbackApplied ==
    [][\A a \in PlayerArgs, t \in PlayerArgs :
        (/\ register_hit(a, t)
         /\ Exists(a) /\ Exists(t)
         /\ WeaponResolves(a)
         /\ InRange(a, t)
         /\ profiles[t].can_receive_pvp_knockback)
        => /\ last'.ok
           /\ IsForceTimesUnit(profiles'[t].pos_x - profiles[t].pos_x,
                               profiles'[t].pos_y - profiles[t].pos_y,
                               profiles[t].pos_x - profiles[a].pos_x,
                               profiles[t].pos_y - profiles[a].pos_y,
                               ClaimedForce(a))
           /\ (/\ profiles[a].pos_x = 0 /\ profiles[a].pos_y = 0
               /\ profiles[a].skill_id = "heavy_strike"
               /\ profiles[t].pos_x = 20 /\ profiles[t].pos_y = 0)
              => (/\ profiles'[t].pos_x = 164 /\ profiles'[t].pos_y = 0
                  /\ last'.hit.kx = 144 /\ last'.hit.ky = 0)
    ]_vars

\* C1 witness: the example has happened: the last call was an applied hit with
\* knockback (14.4, 0) that left its target at (16.4, 0), the attacker at (0, 0).
C1_Witness ==
    /\ last.op = "register_hit" /\ last.ok /\ last.hit.was_applied
    /\ last.hit.kx = 144 /\ last.hit.ky = 0 /\ last.hit.distance = 20
    /\ \E a \in 1..Len(profiles), t \in 1..Len(profiles) :
          /\ events[Len(events)].attacker_player_id = a
          /\ events[Len(events)].target_player_id = t
          /\ profiles[a].pos_x = 0 /\ profiles[a].pos_y = 0
          /\ profiles[t].pos_x = 164 /\ profiles[t].pos_y = 0

\* C2: with attacker and target present and a weapon equipped, register_hit
\* fails with TARGET_OUT_OF_RANGE exactly when the distance exceeds 3.0 (3.0 itself
\* is in range), and that failure changes no profile and appends no event.
C2_OutOfRangeExactly ==
    [][\A a \in PlayerArgs, t \in PlayerArgs :
        (/\ register_hit(a, t)
         /\ Exists(a) /\ Exists(t)
         /\ profiles[a].equipped_weapon_id # NULL)
        => /\ (~last'.ok /\ last'.code = "TARGET_OUT_OF_RANGE") <=> ~InRange(a, t)
           /\ ~InRange(a, t) => (profiles' = profiles /\ events' = events)
    ]_vars

\* C2 witness: the last call was a hit refused for range, with a hit at exactly
\* 3.0 or nearer accepted before it.
C2_Witness ==
    /\ last.op = "register_hit" /\ ~last.ok /\ last.code = "TARGET_OUT_OF_RANGE"
    /\ Len(events) > 0

\* C3: an otherwise valid in-range hit on a target that refuses knockback leaves
\* every position unchanged and appends exactly one event with was_applied false,
\* reason "target_pvp_disabled" and the zero vector; the returned outcome carries
\* the same three values.
C3_SuppressedHit ==
    [][\A a \in PlayerArgs, t \in PlayerArgs :
        (/\ register_hit(a, t)
         /\ Exists(a) /\ Exists(t)
         /\ WeaponResolves(a)
         /\ InRange(a, t)
         /\ ~profiles[t].can_receive_pvp_knockback)
        => /\ last'.ok
           /\ profiles' = profiles
           /\ Len(events') = Len(events) + 1
           /\ SubSeq(events', 1, Len(events)) = events
           /\ events'[Len(events')].attacker_player_id = a
           /\ events'[Len(events')].target_player_id = t
           /\ events'[Len(events')].was_applied = FALSE
           /\ events'[Len(events')].server_reason = "target_pvp_disabled"
           /\ events'[Len(events')].knockback_applied_x = 0
           /\ events'[Len(events')].knockback_applied_y = 0
           /\ last'.hit.was_applied = FALSE
           /\ last'.hit.reason = "target_pvp_disabled"
           /\ last'.hit.kx = 0 /\ last'.hit.ky = 0
    ]_vars

\* C3 witness: the last call was a successful hit that was not applied, its target
\* refusing knockback, and its event is the last of the log.
C3_Witness ==
    /\ last.op = "register_hit" /\ last.ok /\ ~last.hit.was_applied
    /\ Len(events) > 0
    /\ events[Len(events)].hit_id = last.hit.hit_id
    /\ ~events[Len(events)].was_applied
    /\ Exists(events[Len(events)].target_player_id)
    /\ ~profiles[events[Len(events)].target_player_id].can_receive_pvp_knockback

\* C4: the event log only grows at its end: a successful register_hit (applied or
\* suppressed) appends exactly one event whose hit_id differs from every earlier
\* one, and every other step (a failed register_hit included) leaves the log as
\* it was.
C4_AppendOnlyLog ==
    [][/\ SubSeq(events', 1, Len(events)) = events
       /\ Len(events') >= Len(events)
       /\ IF last'.ok /\ \E a \in PlayerArgs, t \in PlayerArgs : register_hit(a, t)
          THEN /\ Len(events') = Len(events) + 1
               /\ events'[Len(events')].hit_id = last'.hit.hit_id
               /\ \A i \in 1..Len(events) :
                     events[i].hit_id # events'[Len(events')].hit_id
          ELSE events' = events
    ]_vars

\* C4 witness: after an applied hit and a suppressed hit, logged under different
\* ids, a hit has failed and the log still holds those two events.
C4_Witness ==
    /\ Len(events) = 2
    /\ events[1].hit_id # events[2].hit_id
    /\ events[1].was_applied # events[2].was_applied
    /\ last.op = "register_hit" /\ ~last.ok

\* The call c made alone on the tables (profs, evs): the tables and the return
\* value it leaves.
Sequential(c, profs, evs) ==
    IF c.name = "register_hit"
    THEN LET r == HitOutcome(profs, Len(evs), c.p, c.q) IN
         IF r.ok
         THEN [profiles |-> IF r.hit.was_applied
                            THEN ApplyKnockback(profs, c.q, r.hit.kx, r.hit.ky)
                            ELSE profs,
               events |-> Append(evs, EventRow(c.p, c.q, r.hit)),
               ret |-> Return(TRUE, "", r.hit, <<>>)]
         ELSE [profiles |-> profs, events |-> evs, ret |-> Return(FALSE, r.code, NoHit, <<>>)]
    ELSE IF c.name = "set_profile_position"
    THEN [profiles |-> SetPosition(profs, c.p, c.pt[1], c.pt[2]), events |-> evs,
          ret |-> Return(c.p \in PlayerIds(profs), "", NoHit, <<>>)]
    ELSE IF c.name = "set_profile_weapon"
    THEN IF <<c.p, c.weapon_id>> \in owned
         THEN [profiles |-> SetWeapon(profs, c.p, c.weapon_id), events |-> evs,
               ret |-> Return(TRUE, "", NoHit, <<>>)]
         ELSE [profiles |-> profs, events |-> evs,
               ret |-> Return(FALSE, "WEAPON_NOT_OWNED", NoHit, <<>>)]
    ELSE [profiles |-> profs, events |-> evs,
          ret |-> Return(TRUE, "", NoHit, ReadRow(profs, c.p))]

InCriticalSection(state) == state \in {"locked", "update", "insert", "release"}

\* C5: each call is one critical section of the store's lock: while a thread is
\* between taking and releasing the lock no other thread is, so no read falls
\* between a hit's move and its event; and when a thread releases the lock the
\* positions, the event log and its return value are those of its call made alone
\* on the tables as they were when it took the lock.  The calls of a run thus
\* have the effects and results of the same calls made one after the other.
C5_HitIsOneCriticalSection ==
    [][/\ \A t \in Threads :
             InCriticalSection(pc'[t])
             => (lock' = t /\ \A u \in Threads \ {t} : ~InCriticalSection(pc'[u]))
       /\ \A t \in Threads :
             profile_read(t) => \A u \in Threads : pc[u] \notin {"update", "insert"}
       /\ \A t \in Threads :
             release(t)
             => \E s \in {Sequential(req[t], snap.profiles, snap.events)} :
                   /\ profiles = s.profiles
                   /\ events = s.events
                   /\ ret[t] = s.ret
    ]_vars

\* C5 witness: a hit has moved its target and not yet logged its event, and a
\* read of that target is waiting for the lock.
C5_Witness ==
    \E t \in Threads, u \in Threads :
        /\ pc[t] = "insert" /\ local[t].was_applied
        /\ pc[u] = "wait" /\ req[u].name = "get_profile" /\ req[u].p = req[t].q
        /\ lock = t

\* C6: in every reachable state each profile's equipped weapon, if set, is one of
\* the weapons that profile owns.
C6_EquippedIsOwned ==
    \A p \in 1..Len(profiles) :
        profiles[p].equipped_weapon_id # NULL
        => <<p, profiles[p].equipped_weapon_id>> \in owned

\* C6 witness: a profile that has been hit and moved has just equipped its second
\* weapon.
C6_Witness ==
    /\ last.op = "set_profile_weapon" /\ last.ok
    /\ Len(events) > 0
    /\ \E p \in 1..Len(profiles) :
          /\ profiles[p].equipped_weapon_id = StarterWeapons[2]
          /\ profiles[p].pos_x # 0

\* C7: set_profile_weapon(player, weapon) fails with WEAPON_NOT_OWNED and changes
\* nothing when the player does not own the weapon; when the player owns it the
\* call succeeds and reads of the profile return it as equipped_weapon_id, and no
\* step other than a successful set_profile_weapon for that player changes what a
\* read of a profile returns as equipped_weapon_id.
C7_EquipOwnedOnly ==
    [][/\ \A p \in PlayerArgs, w \in WeaponArgs :
             set_profile_weapon(p, w)
             => IF <<p, w>> \in owned
                THEN /\ last'.ok
                     /\ get_profile(profiles', p).equipped_weapon_id = w
                     /\ \A q \in 1..Len(profiles) :
                           q # p => get_profile(profiles', q).equipped_weapon_id
                                    = get_profile(profiles, q).equipped_weapon_id
                ELSE /\ ~last'.ok /\ last'.code = "WEAPON_NOT_OWNED"
                     /\ profiles' = profiles
       /\ ~(last'.ok /\ \E p \in PlayerArgs, w \in WeaponArgs : set_profile_weapon(p, w))
          => \A q \in 1..Len(profiles) :
                get_profile(profiles', q).equipped_weapon_id
                = get_profile(profiles, q).equipped_weapon_id
    ]_vars

\* C7 witness: a profile reads as equipped with its second weapon, set by an
\* earlier call, just after an equip call was refused.
C7_Witness ==
    /\ last.op = "set_profile_weapon" /\ ~last.ok /\ last.code = "WEAPON_NOT_OWNED"
    /\ \E p \in 1..Len(profiles) :
          get_profile(profiles, p).equipped_weapon_id = StarterWeapons[2]

\* C8: for a user of the store, create_profile with a skill id that is not in
\* the skill catalog fails with SKILL_NOT_FOUND and creates nothing; any other
\* create_profile adds exactly one profile, of the given user, owning exactly
\* diamond_sword and netherite_sword, with diamond_sword equipped, at (0, 0),
\* accepting knockback, and changes no other profile and no other profile's
\* weapons.
C8_CreateProfile ==
    [][\A u \in UserArgs, s \in SkillArgs :
        (create_profile(u, s) /\ u \in users)
        => IF s # NULL /\ s \notin DOMAIN SkillCatalog
           THEN /\ ~last'.ok /\ last'.code = "SKILL_NOT_FOUND"
                /\ profiles' = profiles /\ owned' = owned
           ELSE /\ last'.ok
                /\ Len(profiles') = Len(profiles) + 1
                /\ SubSeq(profiles', 1, Len(profiles)) = profiles
                /\ profiles'[Len(profiles')] =
                      [user_id |-> u, skill_id |-> s,
                       equipped_weapon_id |-> "diamond_sword",
                       pos_x |-> 0, pos_y |-> 0, can_receive_pvp_knockback |-> TRUE]
                /\ owned' = owned \cup {<<Len(profiles'), "diamond_sword">>,
                                        <<Len(profiles'), "netherite_sword">>}
                /\ \A w \in WeaponArgs : <<Len(profiles'), w>> \notin owned
    ]_vars

\* C9 as stated: accept_quest with a quest id outside the catalog fails with
\* QUEST_NOT_FOUND and adds no row; accepting a known quest leaves exactly one
\* (player, quest) row, with status accepted, and a re-acceptance makes that row's
\* updated_at later than it was.
C9_ReacceptAdvances ==
    [][\A p \in PlayerArgs, q \in QuestArgs :
        (accept_quest(p, q) /\ Exists(p))
        => IF q \notin QuestCatalog
           THEN ~last'.ok /\ last'.code = "QUEST_NOT_FOUND" /\ quests' = quests
           ELSE /\ last'.ok
                /\ Cardinality(QuestRow(quests', p, q)) = 1
                /\ \A r \in QuestRow(quests', p, q) : r.status = "accepted"
                /\ \A old \in QuestRow(quests, p, q), r \in QuestRow(quests', p, q) :
                      r.updated_at > old.updated_at
    ]_vars

\* C9, amended: accept_quest with a quest id outside the catalog fails with
\* QUEST_NOT_FOUND and adds no row; accepting a known quest for a player that has
\* a profile leaves exactly one (player, quest) row, with status accepted, and
\* touches no other row; a re-acceptance keeps the row's accepted_at and sets its
\* updated_at to the whole second the call read from the clock, which is the
\* value it replaces when that second has not passed.
C9_ReacceptRefreshes ==
    [][\A p \in PlayerArgs, q \in QuestArgs :
        (accept_quest(p, q) /\ Exists(p))
        => IF q \notin QuestCatalog
           THEN ~last'.ok /\ last'.code = "QUEST_NOT_FOUND" /\ quests' = quests
           ELSE /\ last'.ok
                /\ Cardinality(QuestRow(quests', p, q)) = 1
                /\ quests' \ QuestRow(quests', p, q) = quests \ QuestRow(quests, p, q)
                /\ \A r \in QuestRow(quests', p, q) :
                      /\ r.status = "accepted"
                      /\ r.updated_at = now
                      /\ QuestRow(quests, p, q) = {} => r.accepted_at = now
                /\ \A old \in QuestRow(quests, p, q), r \in QuestRow(quests', p, q) :
                      /\ r.accepted_at = old.accepted_at
                      /\ old.updated_at = now => r.updated_at = old.updated_at
    ]_vars

\* C9 witness: a quest accepted in one second and accepted again in a later one:
\* one row, whose updated_at has moved on from its accepted_at; the last call was
\* one more acceptance of it, in the second of the one before.
C9_Witness ==
    /\ last.op = "accept_quest" /\ last.ok
    /\ \E r \in quests :
          /\ r.accepted_at < r.updated_at
          /\ r.updated_at = now
          /\ Cardinality(QuestRow(quests, r.player_id, r.quest_id)) = 1

\* The outcomes the store's methods return by name.
TypedErrors ==
    {"PROFILE_NOT_FOUND", "NO_EQUIPPED_WEAPON", "TARGET_OUT_OF_RANGE", "WEAPON_NOT_FOUND",
     "WEAPON_NOT_OWNED", "QUEST_NOT_FOUND", "SKILL_NOT_FOUND"}

\* C10: every call of create_profile, set_profile_weapon, accept_quest or
\* register_hit, whatever its arguments, ends in success or in one of the typed
\* error codes, and a call that does not succeed leaves the store as it was.
C10_TypedOutcomes ==
    [][(\/ \E u \in UserArgs, s \in SkillArgs : create_profile(u, s)
        \/ \E p \in PlayerArgs, w \in WeaponArgs : set_profile_weapon(p, w)
        \/ \E p \in PlayerArgs, q \in QuestArgs : accept_quest(p, q)
        \/ \E a \in PlayerArgs, t \in PlayerArgs : register_hit(a, t))
       => /\ last'.ok \/ last'.code \in TypedErrors
          /\ ~last'.ok => UNCHANGED <<users, profiles, owned, quests, events>>
    ]_vars

\* ------------------------------------------------------------------- C11
\* the user a token was issued to (0 for no token), deleted or not
TokenUser(sid) == IF sid \in 1..Len(sessions) THEN sessions[sid].user_id ELSE 0

\* the request of thread t names a profile that exists and that belongs to the
\* user its token was issued to
NamesOwnProfile(t) ==
    /\ Exists(req[t].p)
    /\ profiles[req[t].p].user_id = TokenUser(req[t].sid)

\* thread t is about to make the store call of a request on its own profile p
ActsOn(t, p) ==
    /\ pc[t] = "act"
    /\ req[t].name \in OwnerPaths
    /\ req[t].p = p
    /\ NamesOwnProfile(t)

\* this step changed what the owner of p alone may change: the equipped weapon,
\* a quest of p, the position other than by a hit, the hits p has dealt
ChangedAsOwner(p) ==
    \/ profiles'[p].equipped_weapon_id # profiles[p].equipped_weapon_id
    \/ {q \in quests' : q.player_id = p} # {q \in quests : q.player_id = p}
    \/ /\ events' = events
       /\ <<profiles'[p].pos_x, profiles'[p].pos_y>> # <<profiles[p].pos_x, profiles[p].pos_y>>
    \/ /\ events' # events
       /\ events'[Len(events')].attacker_player_id = p

\* C11: the position, equip, quest-accept and combat-hit handlers make their
\* store call only for a player (the attacker, for a hit) that exists and is
\* owned by the user of the session; a request naming any other player ends
\* with FORBIDDEN and leaves profiles, weapons, quests and events as they were;
\* and whatever the interleaving, a step that changes what belongs to a
\* profile's owner is the store call of a request of that owner.
C11_OwnerOnly ==
    [][/\ \A t \in Threads :
            (act_position(t) \/ act_equip(t) \/ act_quest(t) \/ act_hit(t))
                => NamesOwnProfile(t)
       /\ \A t \in Threads :
            (owner_check(t) /\ ~NamesOwnProfile(t))
                => /\ ret'[t].code = "FORBIDDEN"
                   /\ pc'[t] = "idle"
                   /\ UNCHANGED <<profiles, owned, quests, events>>
       /\ \A p \in PlayerIds(profiles) :
            ChangedAsOwner(p) => \E t \in Threads : ActsOn(t, p)
      ]_vars

\* one request was refused with FORBIDDEN while another, by the other user,
\* hit with its own profile
C11_Witness ==
    /\ \E t \in Threads : ret[t].code = "FORBIDDEN"
    /\ events # <<>>
    /\ \E t \in Threads : ret[t].ok /\ ret[t].code = "" /\ pc[t] = "idle" /\ calls = MaxRequests

\* ------------------------------------------------------------------- C12
\* the row of an issued token is in auth_sessions
Stored(sid) == sid \in 1..Len(sessions) /\ sessions[sid].stored

\* the row of sid exists, is not revoked and expires after t, where a row
\* expires SESSION_TTL_SECONDS after it was issued
Resolves(sid, t) ==
    /\ Stored(sid)
    /\ sessions[sid].revoked_at = NoTime
    /\ sessions[sid].issued_at + 3600 > t

\* C12: resolve_session returns the session's user exactly when the row
\* exists, is not revoked and expires (3600 s after issue) later than the
\* clock value the call read; otherwise it returns nothing, and when it found
\* the row expired or revoked the row is gone when it returns; destroy_session
\* removes the row; and a row that is gone never comes back, so a token that
\* failed to resolve or was destroyed does not resolve again.
C12_ResolveSession ==
    [][\A t \in Threads :
            /\ session_select(t) =>
                 IF Resolves(req[t].sid, req[t].now)
                 THEN /\ pc'[t] = "idle"
                      /\ ret'[t].ok
                      /\ ret'[t].row = <<sessions[req[t].sid].user_id>>
                 ELSE /\ pc'[t] = "idle" => ~ret'[t].ok /\ ret'[t].row = <<>> /\ ~Stored(req[t].sid)
                      /\ pc'[t] # "idle" => pc'[t] = "purge" /\ Stored(req[t].sid)
            /\ session_purge(t) =>
                 ~ret'[t].ok /\ ret'[t].row = <<>> /\ pc'[t] = "idle" /\ ~Stored(req[t].sid)'
            /\ session_destroy(t) => ~Stored(req[t].sid)'
            /\ \A sid \in 1..Len(sessions) : ~Stored(sid) => ~Stored(sid)'
         ]_vars

\* a token resolved for one caller, a later lookup found it expired and
\* deleted its row, and the clock has since been set back before the expiry
C12_Witness ==
    \E sid \in 1..Len(sessions) :
        /\ ~Stored(sid)
        /\ sessions[sid].revoked_at = NoTime
        /\ sessions[sid].issued_at + 3600 > now
        /\ \E t \in Threads : /\ pc[t] = "idle"
                              /\ req[t] = SessionCall("resolve_session", sid, 0, sessions[sid].issued_at + 3600)
                              /\ ~ret[t].ok
        /\ \E t \in Threads : /\ pc[t] = "idle"
                              /\ req[t].name = "resolve_session"
                              /\ ret[t].row = <<sessions[sid].user_id>>

\* ------------------------------------------------------------------- C13
\* an active ban of user u that has not expired
Banned(u) ==
    \E b \in bans : b.user_id = u /\ b.is_active /\ (b.expires_at = NoTime \/ b.expires_at > now)

\* what a banned user's requests are not to change
GuardedUnchanged == UNCHANGED <<profiles, owned, quests, events, presence, cells>>

\* thread t takes a step of its request
Steps(t) == pc'[t] # pc[t]

\* thread t comes to a store call that acts for the resolved user
StartsActing(t) == pc'[t] \in {"own", "act", "logout_disconnect"} /\ pc[t] # pc'[t]

\* C13 as stated: every request that acts for a session-resolved user, logout
\* included, comes to act only through a ban check that found the user not
\* banned, and no step of a request of a banned user changes the profile store,
\* the event log or the presence map.
C13_BanCheckedEverywhere ==
    [][\A t \in Threads :
          /\ StartsActing(t) => pc[t] \in {"ban", "own"}
          /\ (Steps(t) /\ caller[t] # 0 /\ Banned(caller[t])) => GuardedUnchanged
      ]_vars

\* C13, amended: a handler other than logout comes to its store calls only
\* through the ban check of _auth_user_id, passed with the user not banned; a
\* check that finds an active unexpired ban answers UNAUTHORIZED and changes no
\* profile, weapon, quest, event or presence entry; logout makes no ban check:
\* with a token that resolves it goes straight to presence.disconnect, which
\* removes the user's entry, banned or not.
C13_BanCheckedByAuth ==
    [][\A t \in Threads :
          /\ (StartsActing(t) /\ req[t].name # "/auth/logout")
                => /\ pc[t] \in {"ban", "own"}
                   /\ pc[t] = "ban" => ~Banned(caller[t])
          /\ (Steps(t) /\ req[t].name # "/auth/logout" /\ ~GuardedUnchanged)
                => pc[t] = "act"
          /\ (ban_check(t) /\ Banned(caller[t]))
                => /\ ret'[t].code = "UNAUTHORIZED"
                   /\ pc'[t] = "idle"
                   /\ GuardedUnchanged
          /\ (StartsActing(t) /\ req[t].name = "/auth/logout")
                => pc[t] = "resolve" /\ pc'[t] = "logout_disconnect"
          /\ logout_disconnect(t) => caller[t] \notin DOMAIN presence'
      ]_vars

\* user 1 connected, was banned, and logged out: the entry and the session are
\* gone while the ban stands
C13_Witness ==
    /\ Banned(1)
    /\ now = 0
    /\ ~Stored(1)
    /\ cells # <<>>
    /\ presence = <<>>
    /\ \A t \in Threads : pc[t] = "idle"

\* ------------------------------------------------------------------- C14
\* C14: no two rows of table users have usernames that are equal ignoring
\* letter case, nor emails that are equal ignoring letter case, and a
\* create_user that would make two such rows is rejected with DUPLICATE_USER
\* and stores nothing.
C14_UniqueIgnoringCase ==
    \A i \in 1..Len(accounts), j \in 1..Len(accounts) :
        i # j => /\ Lower(accounts[i].username) # Lower(accounts[j].username)
                 /\ Lower(accounts[i].email) # Lower(accounts[j].email)

\* ------------------------------------------------------------------- C15
\* user u has a presence entry
Present(u) == u \in DOMAIN presence

\* the entry of a user that has one
Entry(u) == cells[presence[u]]

\* nobody but u gains, loses or changes an entry in this step
OthersKeep(u) ==
    \A v \in UserArgs \ {u} :
        /\ Present(v)' = Present(v)
        /\ Present(v) => Entry(v)' = Entry(v)

\* C15: connect(u) leaves u with the entry {connected_at: now, last_seen:
\* now}, whatever u had before; touch(u) sets last_seen of u's entry to now,
\* keeps its connected_at, and creates no entry; disconnect(u) leaves u
\* without an entry, also when u had none; and none of the three changes
\* another user's entry.  So u has an entry exactly when the last connect or
\* disconnect on u was a connect.
C15_PresenceOperations ==
    [][\A u \in UserArgs :
          /\ connect(u) => /\ Present(u)'
                           /\ Entry(u)' = [connected_at |-> now, last_seen |-> now]
                           /\ OthersKeep(u)
          /\ touch(u) => /\ Present(u)' = Present(u)
                         /\ Present(u) => /\ Entry(u)'.last_seen = now
                                          /\ Entry(u)'.connected_at = Entry(u).connected_at
                         /\ OthersKeep(u)
          /\ disconnect(u) => /\ ~Present(u)'
                              /\ OthersKeep(u)
          /\ (Present(u)' # Present(u)) => (connect(u) \/ disconnect(u))
      ]_vars

\* user 1 reconnected at a later time and was touched later still, while
\* user 2 connected and disconnected
C15_Witness ==
    /\ Present(1)
    /\ ~Present(2)
    /\ Len(cells) = 3
    /\ Entry(1).connected_at = SESSION_TTL_SECONDS - 1
    /\ Entry(1).last_seen = SESSION_TTL_SECONDS

\* ------------------------------------------------------------------- C16
\* C16: the map online_user_ids returned keeps its users and, for each, the
\* connected_at and last_seen it had at the call, whatever connect, touch or
\* disconnect is executed afterwards.
C16_SnapshotIsACopy ==
    [][shot' = shot => \A u \in DOMAIN shot : cells'[shot[u]] = cells[shot[u]]]_vars

\* ------------------------------------------------------------------- C17
\* thread t's logout leaves its presence step behind: what is left of the
\* request is the deletion of the session row and the response
PastPresenceStep(t) ==
    /\ req[t].name = "/auth/logout"
    /\ pc[t] # "logout_destroy"
    /\ pc'[t] = "logout_destroy"

\* C17: a logout request carrying a token that was issued to user u leaves u
\* without a presence entry, whatever the state of the token: once the request
\* is past its presence step, u has no entry.
C17_LogoutClearsPresence ==
    [][\A t \in Threads :
          (PastPresenceStep(t) /\ TokenUser(req[t].sid) # 0)
              => TokenUser(req[t].sid) \notin DOMAIN presence'
      ]_vars

\* ------------------------------------------------------------------- C18
\* thread t holds a store lock
Holds(t) == lock = t \/ plock = t

\* thread t is about to wait for a store lock
Waits(t) == pc[t] = "run" /\ req[t].prog # <<>> /\ NextOp(t).op = "acquire"

\* C18: no thread waits for a store lock while it holds one (so the DB lock
\* is never re-acquired by its holder and the two locks are never held
\* together), a thread that returns holds none, whenever a call is in progress
\* some thread can take a step, and under fair scheduling every call and
\* every handler that has begun returns.
C18_NoLockHeldWhileWaiting ==
    /\ [](\A t \in Threads :
            /\ Waits(t) => ~Holds(t)
            /\ ~(lock = t /\ plock = t)
            /\ pc[t] = "idle" => ~Holds(t))
    /\ []((\E t \in Threads : pc[t] = "run") => \E t \in Threads : ENABLED Proceed(t))
    /\ \A t \in Threads : (pc[t] = "run") ~> (pc[t] = "idle")

\* one thread waits for the DB lock, which the other holds, while it is
\* between the two critical sections of its call
C18_Witness ==
    \E t \in Threads, o \in Threads :
        /\ Waits(t)
        /\ NextOp(t).lock = "db"
        /\ Len(req[t].prog) = 2
        /\ req[t].name \in {"create_profile", "resolve_session"}
        /\ lock = o
        /\ o # t
        /\ req[o].name = "_handle_online"

\* ------------------------------------------------------------------- C19
\* the call before this one was a successful register_hit(a, t)
JustHit(a, t) ==
    /\ last.op = "register_hit"
    /\ last.ok
    /\ events # <<>>
    /\ events[Len(events)].attacker_player_id = a
    /\ events[Len(events)].target_player_id = t

Position(profs, p) == <<profs[p].pos_x, profs[p].pos_y>>

\* C19 as stated: when register_hit(a, t) follows a successful
\* register_hit(a, t) with nothing in between, it succeeds too, appends a new
\* event and, when the target accepts knockback, moves the target further.
C19_RepeatAccumulates ==
    [][\A a \in PlayerArgs, t \in PlayerArgs :
        (JustHit(a, t) /\ register_hit(a, t))
        => /\ last'.ok
           /\ Len(events') = Len(events) + 1
           /\ profiles[t].can_receive_pvp_knockback
                => Position(profiles', t) # Position(profiles, t)
    ]_vars

\* C19, amended: the second call is checked against the positions the first
\* one left.  When the target takes no knockback, or is the attacker itself,
\* the second call succeeds: it appends one more event, with a new hit_id and
\* the vector of the first, and moves a target that accepts knockback by that
\* vector again.  When the target is another player and accepts knockback, the
\* first call has pushed it out of range: the second call fails with
\* TARGET_OUT_OF_RANGE and changes neither the profiles nor the log.
C19_RepeatIsRevalidated ==
    [][\A a \in PlayerArgs, t \in PlayerArgs :
        (JustHit(a, t) /\ register_hit(a, t))
        => IF a = t \/ ~profiles[t].can_receive_pvp_knockback
           THEN /\ last'.ok
                /\ Len(events') = Len(events) + 1
                /\ \A i \in 1..Len(events) : events'[i] = events[i]
                /\ events'[Len(events')].hit_id # events[Len(events)].hit_id
                /\ events'[Len(events')].knockback_applied_x = events[Len(events)].knockback_applied_x
                /\ events'[Len(events')].knockback_applied_y = events[Len(events)].knockback_applied_y
                /\ Position(profiles', t) =
                     <<profiles[t].pos_x + events[Len(events)].knockback_applied_x,
                       profiles[t].pos_y + events[Len(events)].knockback_applied_y>>
                /\ ~profiles[t].can_receive_pvp_knockback => profiles' = profiles
                /\ profiles[t].can_receive_pvp_knockback
                     => Position(profiles', t) # Position(profiles, t)
           ELSE /\ ~last'.ok
                /\ last'.code = "TARGET_OUT_OF_RANGE"
                /\ profiles' = profiles
                /\ events' = events
    ]_vars

\* a player has hit itself twice in a row and stands two knockbacks from the
\* origin
C19_Witness ==
    /\ Len(events) = 2
    /\ last.op = "register_hit"
    /\ last.ok
    /\ events[1].attacker_player_id = events[1].target_player_id
    /\ events[2].attacker_player_id = events[1].attacker_player_id
    /\ events[2].target_player_id = events[1].target_player_id
    /\ events[1].was_applied
    /\ events[2].was_applied
    /\ profiles[events[1].target_player_id].pos_x = 2 * events[1].knockback_applied_x
    /\ events[1].knockback_applied_x > 0

\* ------------------------------------------------------------------- C20
\* the result the claimed order of checks gives for register_hit(a, t):
\* profiles, then the equipped weapon, then the range (3.0, squared, in
\* tenths), then the catalog
FirstFailure(a, t) ==
    IF ~Exists(a) \/ ~Exists(t) THEN "PROFILE_NOT_FOUND"
    ELSE IF profiles[a].equipped_weapon_id = NULL THEN "NO_EQUIPPED_WEAPON"
    ELSE IF Dist2(a, t) > 900 THEN "TARGET_OUT_OF_RANGE"
    ELSE IF profiles[a].equipped_weapon_id \notin {"diamond_sword", "netherite_sword"}
    THEN "WEAPON_NOT_FOUND"
    ELSE ""

\* C20: register_hit fails with the code of the first check that fails, in
\* the order PROFILE_NOT_FOUND, NO_EQUIPPED_WEAPON, TARGET_OUT_OF_RANGE,
\* WEAPON_NOT_FOUND, succeeds when none fails, and a failure changes neither
\* the profiles nor the event log.
C20_ValidationOrder ==
    [][\A a \in PlayerArgs, t \in PlayerArgs :
        register_hit(a, t)
        => /\ last'.code = FirstFailure(a, t)
           /\ last'.ok = (FirstFailure(a, t) = "")
           /\ ~last'.ok => profiles' = profiles /\ events' = events
    ]_vars

\* an attacker out of range with a weapon the catalog lacks was refused with
\* TARGET_OUT_OF_RANGE, nothing logged
C20_Witness ==
    /\ last.op = "register_hit"
    /\ last.code = "TARGET_OUT_OF_RANGE"
    /\ profiles[1].equipped_weapon_id = "no_such_weapon"
    /\ profiles[2].equipped_weapon_id = NULL
    /\ Dist2(1, 2) > 900
    /\ events = <<>>
    /\ calls = 1

\* ------------------------------------------------------------------- C21
\* two different profiles stand on the same point
SamePoint(a, t) ==
    /\ Exists(a) /\ Exists(t) /\ a # t
    /\ Position(profiles, a) = Position(profiles, t)

\* C21: register_hit between two different profiles that stand on the same
\* point succeeds with distance 0; the vector is force * (1, 0) = (force, 0),
\* a target that accepts knockback moves by exactly (force, 0) and the event
\* and the returned dict record (force, 0); the attacker stays where it was.
C21_SamePointPushesAlongX ==
    [][\A a \in PlayerArgs, t \in PlayerArgs :
        (register_hit(a, t) /\ SamePoint(a, t) /\ WeaponResolves(a))
        => /\ last'.ok
           /\ last'.hit.distance = 0
           /\ Len(events') = Len(events) + 1
           /\ profiles[t].can_receive_pvp_knockback
                => /\ last'.hit.kx = ClaimedForce(a) /\ last'.hit.ky = 0
                   /\ events'[Len(events')].knockback_applied_x = ClaimedForce(a)
                   /\ events'[Len(events')].knockback_applied_y = 0
                   /\ Position(profiles', t) =
                        <<profiles[t].pos_x + ClaimedForce(a), profiles[t].pos_y>>
                   /\ Position(profiles', a) = Position(profiles, a)
    ]_vars

\* two different profiles stood on one point away from the origin, one hit
\* the other, and the target now stands exactly the force to the right of the
\* attacker
C21_Witness ==
    /\ last.op = "register_hit" /\ last.ok /\ last.hit.was_applied
    /\ last.hit.distance = 0
    /\ last.hit.kx \in {120, 144} /\ last.hit.ky = 0
    /\ \E a \in 1..Len(profiles), t \in 1..Len(profiles) :
          /\ a # t
          /\ events[Len(events)].attacker_player_id = a
          /\ events[Len(events)].target_player_id = t
          /\ profiles[a].pos_x > 0
          /\ profiles[t].pos_x = profiles[a].pos_x + last.hit.kx
          /\ profiles[t].pos_y = profiles[a].pos_y

\* ------------------------------------------------------------------- C22
\* the attacker's skill id is one the skill catalog has
SkillResolves(a) == profiles[a].skill_id \in {"novice", "heavy_strike"}

\* base_knockback of the attacker's weapon, in tenths (12.0 for both swords)
BaseKnockback(a) == IF WeaponResolves(a) THEN 120 ELSE 0

\* C22: a register_hit that passes the checks succeeds whatever the
\* attacker's skill id is; the force is base_knockback times the skill's
\* multiplier (1.0 novice, 1.2 heavy_strike) when the skill id is in the
\* catalog, and base_knockback itself when the attacker has no skill id, an
\* empty one or one the catalog lacks.  The force is read off the vector of
\* a target that accepts knockback.
C22_SkillMultiplier ==
    [][\A a \in PlayerArgs, t \in PlayerArgs :
        (/\ register_hit(a, t)
         /\ Exists(a) /\ Exists(t)
         /\ WeaponResolves(a)
         /\ InRange(a, t))
        => /\ last'.ok
           /\ last'.code = ""
           /\ Len(events') = Len(events) + 1
           /\ profiles[t].can_receive_pvp_knockback =>
                \E f \in {IF SkillResolves(a)
                           THEN (BaseKnockback(a) * (IF profiles[a].skill_id = "heavy_strike"
                                                     THEN 12 ELSE 10)) \div 10
                           ELSE BaseKnockback(a)} :
                   /\ IsForceTimesUnit(last'.hit.kx, last'.hit.ky,
                                       profiles[t].pos_x - profiles[a].pos_x,
                                       profiles[t].pos_y - profiles[a].pos_y, f)
                   /\ profiles'[t].pos_x = profiles[t].pos_x + last'.hit.kx
                   /\ profiles'[t].pos_y = profiles[t].pos_y + last'.hit.ky
    ]_vars

\* an attacker whose skill id the catalog lacks has hit a target 2.0 away,
\* which moved by the weapon's base knockback 12.0
C22_Witness ==
    /\ last.op = "register_hit" /\ last.ok /\ last.hit.was_applied
    /\ Len(events) = 1
    /\ events[1].attacker_player_id = 1
    /\ events[1].target_player_id = 2
    /\ profiles[1].skill_id = "no_such_skill"
    /\ last.hit.distance = 20
    /\ last.hit.kx = 120 /\ last.hit.ky = 0
    /\ profiles[2].pos_x = 140

\* ------------------------------------------------------------------- C23
\* a profile row without its position
Fields(row) ==
    <<row.user_id, row.skill_id, row.equipped_weapon_id, row.can_receive_pvp_knockback>>

\* everything but the profiles and the event log is as it was
RestUnchanged ==
    UNCHANGED <<users, owned, quests, accounts, sessions, bans, presence, cells, shot>>

\* C23: a successful register_hit(a, t) leaves the users, the owned weapons,
\* the quest rows, the accounts, the sessions, the bans and the presence map
\* as they were, adds one event at the end of the log, and changes no profile
\* row but the target's, of which it changes only the position (and that by
\* the recorded vector); the attacker, when it is not the target, stays; a
\* suppressed hit changes no profile at all.
C23_HitFrame ==
    [][\A a \in PlayerArgs, t \in PlayerArgs :
        (register_hit(a, t) /\ last'.ok)
        => /\ RestUnchanged
           /\ Len(profiles') = Len(profiles)
           /\ \A p \in 1..Len(profiles) :
                 /\ Fields(profiles'[p]) = Fields(profiles[p])
                 /\ p # t => profiles'[p] = profiles[p]
           /\ a # t => Position(profiles', a) = Position(profiles, a)
           /\ Position(profiles', t) =
                <<profiles[t].pos_x + last'.hit.kx, profiles[t].pos_y + last'.hit.ky>>
           /\ ~last'.hit.was_applied => profiles' = profiles
           /\ Len(events') = Len(events) + 1
           /\ \A i \in 1..Len(events) : events'[i] = events[i]
    ]_vars

\* in a world with a quest row, two sessions and a user present, one profile
\* has just hit the other for the second time, and the target stands where
\* the second vector has put it
C23_Witness ==
    /\ last.op = "register_hit" /\ last.ok /\ last.hit.was_applied
    /\ Len(events) = 2
    /\ events[1].was_applied
    /\ events[2].attacker_player_id # events[2].target_player_id
    /\ events[1].attacker_player_id = events[2].attacker_player_id
    /\ events[1].target_player_id = events[2].target_player_id
    /\ Position(profiles, events[2].attacker_player_id) = <<0, 0>>
    /\ Position(profiles, events[2].target_player_id) = <<20 + last.hit.kx, 0>>
    /\ quests # {}
    /\ sessions # <<>>
    /\ presence # <<>>

\* ------------------------------------------------------------------- C24
\* C24: set_profile_position(p, x, y) on a profile that exists returns true
\* and leaves the profile at exactly (x, y), whatever its position was before
\* (set or reached by knockback) and whichever user owns it; it changes no
\* other field of the row, no other profile, no event and nothing else.  On
\* a profile that does not exist it returns false and changes nothing.
C24_UnconditionalOverwrite ==
    [][\A p \in PlayerArgs, pt \in PointArgs :
        set_profile_position(p, pt)
        => /\ RestUnchanged
           /\ events' = events
           /\ Len(profiles') = Len(profiles)
           /\ \A o \in 1..Len(profiles) :
                 /\ Fields(profiles'[o]) = Fields(profiles[o])
                 /\ o # p => profiles'[o] = profiles[o]
           /\ IF Exists(p)
              THEN last'.ok /\ Position(profiles', p) = pt
              ELSE ~last'.ok /\ last'.code = "" /\ profiles' = profiles
    ]_vars

\* the profile of user 2 was knocked away by a hit and has then been set to
\* (1.8, 2.4)
C24_Witness ==
    /\ calls = 2
    /\ last.op = "set_profile_position" /\ last.ok
    /\ Len(events) = 1
    /\ events[1].target_player_id = 2 /\ events[1].was_applied
    /\ events[1].knockback_applied_x = 144
    /\ profiles[2].user_id = 2
    /\ Position(profiles, 2) = <<18, 24>>

\* ------------------------------------------------------------------- C25
\* the sum of the vectors of the applied events on p logged after the first
\* n of evs
RECURSIVE KnockbackSum(_, _, _)
KnockbackSum(evs, n, p) ==
    IF n >= Len(evs) THEN <<0, 0>>
    ELSE LET e == evs[Len(evs)]
             r == KnockbackSum(SubSeq(evs, 1, Len(evs) - 1), n, p)
         IN IF e.target_player_id = p /\ e.was_applied
            THEN <<r[1] + e.knockback_applied_x, r[2] + e.knockback_applied_y>>
            ELSE r

\* the thread's call is a set_profile_position of p
SetsPosition(t, p) == req[t].name = "set_profile_position" /\ req[t].p = p

\* C25: the positions follow the calls that were committed.  The profiles and
\* the log change only inside a critical section, snap being the tables that
\* were committed when it began.  When a critical section ends, a profile its
\* call has set stands exactly at the coordinates of the call, with nothing
\* logged; every other profile stands where it stood plus the sum of the
\* vectors of the applied events on it that the call has logged: one vector
\* for the target of an applied hit, nothing otherwise.  So each position is
\* that of its last committed set_profile_position, or (0, 0), plus the
\* vectors of the applied events on it committed since: none lost, none
\* counted twice, under every interleaving of the threads.
C25_PositionsFollowTheLog ==
    [][/\ (profiles' # profiles \/ events' # events)
            => /\ lock # 0 /\ lock' = lock
               /\ pc[lock] \in {"locked", "update", "insert"}
               /\ snap' = snap
       /\ \A t \in Threads :
             acquire(t) => snap' = [profiles |-> profiles, events |-> events]
       /\ \A t \in Threads :
             release(t)
             => /\ Len(profiles) = Len(snap.profiles)
                /\ Len(events) - Len(snap.events) \in {0, 1}
                /\ \A i \in 1..Len(snap.events) : events[i] = snap.events[i]
                /\ \A p \in 1..Len(profiles) :
                      IF SetsPosition(t, p)
                      THEN /\ Position(profiles, p) = req[t].pt
                           /\ events = snap.events
                      ELSE \E k \in {KnockbackSum(events, Len(snap.events), p)} :
                              Position(profiles, p) =
                                <<snap.profiles[p].pos_x + k[1], snap.profiles[p].pos_y + k[2]>>
    ]_vars

\* a target was hit, set back to (2.0, 0), and hit again: the second hit is
\* about to release the lock with the target at (2.0, 0) plus the second
\* vector only
C25_Witness ==
    \E t \in Threads :
        /\ pc[t] = "release"
        /\ req[t].name = "register_hit"
        /\ Len(events) = 2
        /\ Len(snap.events) = 1
        /\ events[1].target_player_id = 2 /\ events[1].was_applied
        /\ events[2].target_player_id = 2 /\ events[2].was_applied
        /\ events[1].knockback_applied_x = 144
        /\ Position(snap.profiles, 2) = <<20, 0>>
        /\ Position(profiles, 2) = <<20 + events[2].knockback_applied_x, 0>>

\* ------------------------------------------------------------------- C26
\* the row of token sid was deleted by a logout: it is gone although it was
\* neither revoked nor expired (resolve_session deletes only such rows)
LoggedOut(sid) ==
    /\ sid \in 1..Len(sessions)
    /\ ~sessions[sid].stored
    /\ sessions[sid].revoked_at = NoTime
    /\ now < sessions[sid].expires_at

\* thread t makes the store call of a position update, an equip, a quest
\* accept, a hit or a connect
Mutates(t) ==
    act_position(t) \/ act_equip(t) \/ act_quest(t) \/ act_hit(t) \/ act_connect(t)

\* C26: a request changes the profiles, the quests, the event log or the
\* presence map only while the session it was authorized by has not been
\* logged out.
C26_NoChangeAfterLogout ==
    [][\A t \in Threads :
        (/\ Mutates(t)
         /\ <<profiles, quests, events, presence, cells>>'
              # <<profiles, quests, events, presence, cells>>)
        => ~LoggedOut(req[t].sid)
    ]_vars

\* ------------------------------------------------------------------- C27
\* the equipped weapon of profile p is a weapon of the catalog
HasCatalogWeapon(p) == profiles[p].equipped_weapon_id \in {"diamond_sword", "netherite_sword"}

\* thread t is inside create_profile's critical section, the row of p
\* inserted and not yet committed
IsCreating(t, p) == lock = t /\ pc[t] \in {"inserted", "granted"} /\ req[t].q = p

\* C27: a profile row without a weapon of the catalog exists only inside the
\* critical section of the create_profile that is inserting it, before its
\* commit; so every committed profile has an equipped weapon of the catalog,
\* no read of a profile returns one without, and register_hit fails only
\* with PROFILE_NOT_FOUND or TARGET_OUT_OF_RANGE, never with
\* NO_EQUIPPED_WEAPON or WEAPON_NOT_FOUND.
C27_AlwaysEquipped ==
    /\ [](\A p \in 1..Len(profiles) :
             ~HasCatalogWeapon(p) => \E t \in Threads : IsCreating(t, p))
    /\ [][/\ \A t \in Threads :
                hit_validate(t)
                => \/ pc'[t] = "update"
                   \/ ret'[t].code \in {"PROFILE_NOT_FOUND", "TARGET_OUT_OF_RANGE"}
          /\ \A t \in Threads :
                profile_read(t)
                => \/ ret'[t].row = <<>>
                   \/ ret'[t].row[1].equipped_weapon_id \in {"diamond_sword", "netherite_sword"}
         ]_vars

\* a create_profile has inserted its row, no weapon equipped yet, while a hit
\* by that very profile waits for the lock
C27_Witness ==
    \E t \in Threads, u \in Threads :
        /\ IsCreating(t, 2)
        /\ profiles[2].equipped_weapon_id = NULL
        /\ pc[u] = "wait"
        /\ req[u].name = "register_hit"
        /\ req[u].p = 2

\* ------------------------------------------------------------------- C28
\* the call of thread t is register_hit(p, p) on the profile p
SelfHit(t, p) ==
    /\ req[t].name = "register_hit"
    /\ req[t].p = p
    /\ req[t].q = p

\* C28: register_hit with the attacker as its own target, on a profile that
\* exists, passes every check: the distance is 0, the vector is
\* force * (1, 0) = (force, 0) and it is applied; when the call ends it has
\* succeeded, the player stands (force, 0) from where it stood when the call
\* began, and one event with attacker = target and the vector (force, 0) has
\* been added.  This holds wherever the player stands and whatever was
\* logged before, so the call can be repeated without end, each time moving
\* the player another (force, 0).
C28_SelfHit ==
    [][/\ \A t \in Threads, p \in PlayerArgs :
            (hit_validate(t) /\ SelfHit(t, p) /\ Exists(p))
            => /\ pc'[t] = "update"
               /\ local'[t].distance = 0
               /\ local'[t].kx = ClaimedForce(p)
               /\ local'[t].ky = 0
               /\ local'[t].was_applied
       /\ \A t \in Threads, p \in PlayerArgs :
            (release(t) /\ SelfHit(t, p) /\ p \in 1..Len(snap.profiles))
            => /\ ret[t].ok
               /\ Position(profiles, p) =
                    <<snap.profiles[p].pos_x + ClaimedForce(p), snap.profiles[p].pos_y>>
               /\ Len(events) = Len(snap.events) + 1
               /\ events[Len(events)].attacker_player_id = p
               /\ events[Len(events)].target_player_id = p
               /\ events[Len(events)].was_applied
               /\ events[Len(events)].knockback_applied_x = ClaimedForce(p)
               /\ events[Len(events)].knockback_applied_y = 0
    ]_vars

\* the first profile has hit itself three times in a row and stands three
\* knockbacks of 14.4 from the origin
C28_Witness ==
    /\ Len(events) = 3
    /\ \A i \in 1..3 :
          /\ events[i].attacker_player_id = 1
          /\ events[i].target_player_id = 1
          /\ events[i].was_applied
          /\ events[i].knockback_applied_x = 144
    /\ Position(profiles, 1) = <<432, 0>>
    /\ \A t \in Threads : pc[t] = "idle"

\* ------------------------------------------------------------------- C29
\* the step is a hit of a on another profile t that was applied
AppliedHit(a, t) ==
    /\ a # t
    /\ register_hit(a, t)
    /\ last'.ok
    /\ last'.hit.was_applied

\* the square of distance + force lies between lo and hi squared; the
\* distance enters as its next tenth up and each component of the vector is
\* rounded to its nearest tenth
WithinATenth(new2, d2, force) ==
    /\ (Sqrt(d2) + force - 2) * (Sqrt(d2) + force - 2) < new2
    /\ new2 < (Sqrt(d2) + force + 1) * (Sqrt(d2) + force + 1)

\* distance and both components of force * unit are whole tenths
ExactPush(dx, dy, force) ==
    \E d \in 0..MAX_HIT_DISTANCE :
        /\ d * d = dx * dx + dy * dy
        /\ d # 0 => ((force * dx) % d = 0 /\ (force * dy) % d = 0)

\* C29: an applied hit of a on another profile t at distance d leaves t at
\* distance d + force from a (force when d = 0), on the ray from a through
\* where t stood, and with every seeded weapon that is beyond
\* MAX_HIT_DISTANCE.  A position changes only by set_profile_position on
\* that profile or by an applied hit on it, and register_hit(a, t) on
\* profiles beyond MAX_HIT_DISTANCE fails with TARGET_OUT_OF_RANGE and
\* changes nothing: so a cannot hit t again until one of the two positions
\* has been changed by another operation.
C29_PushedOutOfRange ==
    [][/\ \A a \in PlayerArgs, t \in PlayerArgs :
            AppliedHit(a, t)
            => LET dx == profiles[t].pos_x - profiles[a].pos_x
                   dy == profiles[t].pos_y - profiles[a].pos_y
                   nx == profiles'[t].pos_x - profiles'[a].pos_x
                   ny == profiles'[t].pos_y - profiles'[a].pos_y
                   force == ClaimedForce(a)
               IN /\ force >= 120
                  /\ Position(profiles', a) = Position(profiles, a)
                  /\ WithinATenth(nx * nx + ny * ny, dx * dx + dy * dy, force)
                  /\ ExactPush(dx, dy, force)
                       => nx * nx + ny * ny
                            = (Sqrt(dx * dx + dy * dy) + force) * (Sqrt(dx * dx + dy * dy) + force)
                  /\ (dx = 0 /\ dy = 0) => (nx = force /\ ny = 0)
                  /\ (dx # 0 \/ dy # 0)
                       => /\ 2 * Abs(nx * dy - ny * dx) <= Abs(dx) + Abs(dy)
                          /\ nx * dx + ny * dy > 0
                  /\ nx * nx + ny * ny > MAX_HIT_DISTANCE * MAX_HIT_DISTANCE
       /\ \A p \in PlayerArgs :
            (Exists(p) /\ Position(profiles', p) # Position(profiles, p))
            => \/ \E pt \in PointArgs : set_profile_position(p, pt)
               \/ \E a \in PlayerArgs : register_hit(a, p) /\ last'.ok /\ last'.hit.was_applied
       /\ \A a \in PlayerArgs, t \in PlayerArgs :
            (register_hit(a, t) /\ Exists(a) /\ Exists(t) /\ ~InRange(a, t))
            => /\ ~last'.ok
               /\ last'.code = "TARGET_OUT_OF_RANGE"
               /\ profiles' = profiles
               /\ events' = events
    ]_vars

\* the second profile, standing at (1.8, 2.4), was hit from the origin with
\* force 12.0, went to (9.0, 12.0), distance 3.0 + 12.0, and the same hit
\* has now been refused
C29_Witness ==
    /\ Len(profiles) = 2
    /\ Len(events) = 1
    /\ events[1].attacker_player_id = 1
    /\ events[1].target_player_id = 2
    /\ events[1].was_applied
    /\ events[1].knockback_applied_x = 72
    /\ events[1].knockback_applied_y = 96
    /\ Position(profiles, 1) = <<0, 0>>
    /\ Position(profiles, 2) = <<90, 120>>
    /\ last.op = "register_hit"
    /\ ~last.ok
    /\ last.code = "TARGET_OUT_OF_RANGE"

====
